---- MODULE Spec2Model ----
(***************************************************************************)
(* The ledger engine of firebase/database.js: accounts, sub-accounts,      *)
(* transactions (with linked transfer pairs) and favorites kept in a       *)
(* document store, with cached balances recomputed after every mutation.   *)
(*                                                                         *)
(* Every exported async function is modelled as a step function over the   *)
(* store: one step per await (one document-store round trip together with  *)
(* the synchronous code around it).  Spec runs each handler to completion  *)
(* in one action (operations one at a time); SpecConc runs the same step   *)
(* functions interleaved.                                                  *)
(*                                                                         *)
(* Not modelled: timestamps (createdAt, updatedAt, transactionDate), name, *)
(* color, isFavorite, category and tags; description stands for the shared *)
(* free-text fields, which all follow the same code path.  Amounts and     *)
(* balances are integers.                                                  *)
(***************************************************************************)
EXTENDS Integers, Sequences, FiniteSets, TLC

\* ---------------------------------------------------------------- bounds
MaxAccounts == 2
MaxSubAccounts == 2
MaxTransactions == 2
MaxFavorites == 1
MaxAmount == 2
MaxCalls == 2

\* ------------------------------------------------------------ input sets
\* The absent id: null, undefined or the empty string.
NoId == 0

Users == {"u1", "u2"}
\* The ids that are no tenant's: falsy, blank, not a string.
InvalidUserIds == {"", "  ", "<number>"}

AccountIds == 1..MaxAccounts
SubAccountIds == 1..MaxSubAccounts
TransactionIds == 1..MaxTransactions
FavoriteIds == 1..MaxFavorites

Amounts == 1..MaxAmount

\* ---------------------------------------------------------------- store
\* A collection is a function from the ids of its documents to the documents.
Put(coll, id, d) ==
  [x \in (DOMAIN coll) \cup {id} |-> IF x = id THEN d ELSE coll[x]]

Delete(coll, ids) == [x \in (DOMAIN coll) \ ids |-> coll[x]]

EmptyColl == [x \in {} |-> 0]

EmptyStore ==
  [accounts |-> EmptyColl, subAccounts |-> EmptyColl,
   transactions |-> EmptyColl, favorites |-> EmptyColl,
   nextAccount |-> 1, nextSubAccount |-> 1,
   nextTransaction |-> 1, nextFavorite |-> 1]

\* Firestore merge of the fields of patch p into document d (fields outside
\* the modelled ones are dropped).
Merge(d, p) ==
  [f \in DOMAIN d |-> IF f \in DOMAIN p THEN p[f] ELSE d[f]]

RECURSIVE SumOver(_, _)
SumOver(f, S) ==
  IF S = {} THEN 0
  ELSE LET x == CHOOSE y \in S : TRUE IN f[x] + SumOver(f, S \ {x})

\* ------------------------------------------------------------ validation
ValidAccountTypes == {"Asset", "Liability", "Income", "Expense", "Equity"}
ValidTransactionTypes == {"Income", "Expense", "Transfer"}

\* A caller's userId as it arrives: "" stands for the falsy values (null,
\* undefined, ''), a member of NonStrings for a value that is not a string.
NonStrings == {"<number>"}
Blank == "  "

Trim(str) == IF str = Blank THEN "" ELSE str

\* "" when the caller's userId passes, the error otherwise.
validateUserId(userId) ==
  IF userId = "" THEN "Validation"
  ELSE IF userId \in NonStrings THEN "Validation"
  ELSE IF Trim(userId) = "" THEN "Validation"
  ELSE ""

\* requireUserId without the call to validateUserId.
requireUserIdTruthy(userId) == IF userId = "" THEN "Validation" ELSE ""

requireUserId(userId) ==
  IF userId = "" THEN "Validation" ELSE validateUserId(userId)

\* An amount check that only refuses zero.
validateAmountNonZero(amount) == IF amount = 0 THEN "Validation" ELSE ""

validateAmount(amount) == IF amount <= 0 THEN "Validation" ELSE ""

validateAccountType(t) == IF t \in ValidAccountTypes THEN "" ELSE "Validation"

validateTransactionType(t) ==
  IF t \in ValidTransactionTypes THEN "" ELSE "Validation"

\* ----------------------------------------------------------------- reads
\* Single-document reads give "" or the error they throw.
\* An account read that does not compare the document's userId.
getAccountOfAnyTenant(st, u, id) ==
  IF requireUserId(u) # "" \/ id = NoId THEN "Validation"
  ELSE IF id \notin DOMAIN st.accounts THEN "NotFound"
  ELSE ""

getAccount(st, u, id) ==
  IF requireUserId(u) # "" \/ id = NoId THEN "Validation"
  ELSE IF id \notin DOMAIN st.accounts THEN "NotFound"
  ELSE IF st.accounts[id].userId # u THEN "Unauthorized"
  ELSE ""

\* A sub-account read that does not compare the document's userId.
getSubAccountOfAnyTenant(st, u, id) ==
  IF requireUserId(u) # "" \/ id = NoId THEN "Validation"
  ELSE IF id \notin DOMAIN st.subAccounts THEN "NotFound"
  ELSE ""

getSubAccount(st, u, id) ==
  IF requireUserId(u) # "" \/ id = NoId THEN "Validation"
  ELSE IF id \notin DOMAIN st.subAccounts THEN "NotFound"
  ELSE IF st.subAccounts[id].userId # u THEN "Unauthorized"
  ELSE ""

getTransaction(st, u, id) ==
  IF requireUserId(u) # "" \/ id = NoId THEN "Validation"
  ELSE IF id \notin DOMAIN st.transactions THEN "NotFound"
  ELSE IF st.transactions[id].userId # u THEN "Unauthorized"
  ELSE ""

\* Queries give the ids of the documents they return.
getAccounts(st, u) ==
  {a \in DOMAIN st.accounts : st.accounts[a].userId = u}

getAllTransactions(st, u) ==
  {t \in DOMAIN st.transactions : st.transactions[t].userId = u}

getSubAccountsByAccount(st, u, accountId) ==
  {s \in DOMAIN st.subAccounts :
     st.subAccounts[s].userId = u /\ st.subAccounts[s].accountId = accountId}

\* A transaction query without the userId filter.
getTransactionsOfAnyTenant(st, u, subAccountId) ==
  {t \in DOMAIN st.transactions :
     st.transactions[t].subAccountId = subAccountId}

getTransactionsBySubAccount(st, u, subAccountId) ==
  {t \in DOMAIN st.transactions :
     st.transactions[t].userId = u
     /\ st.transactions[t].subAccountId = subAccountId}

getFavorites(st, u) ==
  {f \in DOMAIN st.favorites : st.favorites[f].userId = u}

getFavoritesByAccount(st, u, accountId) ==
  {f \in getFavorites(st, u) : st.favorites[f].accountId = accountId}

\* The favorites query of deleteAccount, which looks at accountId only.
getFavoritesNamingAccount(st, u, id) ==
  {f \in getFavorites(st, u) : st.favorites[f].accountId = id}

getFavoritesBySubAccount(st, u, subAccountId) ==
  {f \in getFavorites(st, u) : st.favorites[f].subAccountId = subAccountId}

\* The fold of the earlier database.js (src/unnamed/part_001), which
\* subtracted every transfer whatever its direction.
SignedAmountDebitingTransfers(txn) ==
  IF txn.transactionType = "Income" THEN txn.amount
  ELSE IF txn.transactionType \in {"Expense", "Transfer"} THEN -txn.amount
  ELSE 0

\* ------------------------------------------------------ balance folding
\* The contribution of one transaction document to its sub-account's balance.
SignedAmount(txn) ==
  IF txn.transactionType = "Income" THEN txn.amount
  ELSE IF txn.transactionType = "Expense" THEN 0 - txn.amount
  ELSE IF txn.transactionType = "Transfer"
       THEN IF txn.transferType = "Incoming" THEN txn.amount
            ELSE 0 - txn.amount
  ELSE 0

\* A fold that adds every amount, whatever the type of the transaction.
FoldBalanceUnsigned(st, ids) ==
  SumOver([t \in ids |-> st.transactions[t].amount], ids)

\* The fold of recalculateSubAccountBalance over the documents its query returns.
FoldBalance(st, ids) ==
  SumOver([t \in ids |-> SignedAmount(st.transactions[t])], ids)

\* An account total folded from the transaction log of each sub-account
\* instead of from the stored balances.
FoldTotalFromLog(st, ids) ==
  SumOver([x \in DOMAIN st.subAccounts |->
             FoldBalance(st, {t \in DOMAIN st.transactions :
                                st.transactions[t].subAccountId = x})],
          ids)

\* The fold of recalculateAccountBalance over the sub-accounts its query returns.
FoldTotal(st, ids) ==
  SumOver([s \in ids |-> st.subAccounts[s].balance], ids)

\* ----------------------------------------------------------------- calls
\* A call of an exported function: its arguments, the place it has reached
\* (pc), the error it threw (err), and its local variables.
\*   txn, linked : the snapshots `transaction` and `linkedTransaction`
\*                 (<<>> for null, <<doc>> otherwise)
\*   pending, subIds, txnIds, favIds : the documents a cascade has enumerated
\*   todo : the balance recomputations still to run, in order
\*   val  : the balance a recomputation has folded and not yet written
\*   ret  : the value returned
NewCall(op, u, arg) ==
  [op |-> op, u |-> u, arg |-> arg, pc |-> "start", err |-> "",
   txn |-> <<>>, linked |-> <<>>, pending |-> {}, subIds |-> {},
   txnIds |-> {}, favIds |-> {}, todo |-> <<>>, val |-> 0, ret |-> NoId]

Finished(c) == c.pc \in {"done", "failed"}

Throw(st, c, e) == [st |-> st, c |-> [c EXCEPT !.pc = "failed", !.err = e]]

Goto(st, c, pc) == [st |-> st, c |-> [c EXCEPT !.pc = pc]]

Sub(id) == [kind |-> "sub", id |-> id]
Acct(id) == [kind |-> "acct", id |-> id]

\* Enter the recomputations in `todo` (done when there are none).
Recalculate(st, c, todo) ==
  [st |-> st,
   c |-> [c EXCEPT !.todo = todo,
                   !.pc = IF todo = <<>> THEN "done" ELSE "rcheck"]]

\* The recomputation at the head of todo has written: on to the next one.
NextRecalculation(st, c) ==
  [st |-> st,
   c |-> [c EXCEPT !.todo = Tail(c.todo),
                   !.pc = IF Tail(c.todo) = <<>> THEN "done" ELSE "rcheck",
                   !.ret = IF c.op \in {"recalculateSubAccountBalance",
                                        "recalculateAccountBalance"}
                           THEN c.val ELSE c.ret]]

\* ------------------------------------------------- balance recomputation
\* A sub-account recomputation whose write folds the log again, as a
\* read and write inside one store transaction would.
recalculateSubAccountBalanceInTransaction(st, c) ==
  LET id == Head(c.todo).id IN
  CASE c.pc = "rcheck" ->
         LET e == getSubAccount(st, c.u, id) IN
         IF e # "" THEN Throw(st, c, e) ELSE Goto(st, c, "rread")
    [] c.pc = "rread" ->
         LET balance ==
               FoldBalance(st, getTransactionsBySubAccount(st, c.u, id))
         IN [st |-> st, c |-> [c EXCEPT !.val = balance, !.pc = "rwrite"]]
    [] c.pc = "rwrite" ->
         IF id \notin DOMAIN st.subAccounts THEN Throw(st, c, "NotFound")
         ELSE LET balance ==
                    FoldBalance(st, getTransactionsBySubAccount(st, c.u, id))
              IN NextRecalculation(
                   [st EXCEPT !.subAccounts[id].balance = balance],
                   [c EXCEPT !.val = balance])

\* A sub-account recomputation that also writes the folded balance into the
\* totalBalance of the parent account.
recalculateSubAccountBalanceCascading(st, c) ==
  LET id == Head(c.todo).id IN
  CASE c.pc = "rcheck" ->
         LET e == getSubAccount(st, c.u, id) IN
         IF e # "" THEN Throw(st, c, e) ELSE Goto(st, c, "rread")
    [] c.pc = "rread" ->
         LET balance ==
               FoldBalance(st, getTransactionsBySubAccount(st, c.u, id))
         IN [st |-> st, c |-> [c EXCEPT !.val = balance, !.pc = "rwrite"]]
    [] c.pc = "rwrite" ->
         IF id \notin DOMAIN st.subAccounts THEN Throw(st, c, "NotFound")
         ELSE LET parent == st.subAccounts[id].accountId IN
              NextRecalculation(
                [st EXCEPT !.subAccounts[id].balance = c.val,
                           !.accounts =
                              IF parent \in DOMAIN @
                              THEN [@ EXCEPT ![parent].totalBalance = c.val]
                              ELSE @],
                c)

recalculateSubAccountBalance(st, c) ==
  LET id == Head(c.todo).id IN
  CASE c.pc = "rcheck" ->
         LET e == getSubAccount(st, c.u, id) IN
         IF e # "" THEN Throw(st, c, e) ELSE Goto(st, c, "rread")
    [] c.pc = "rread" ->
         LET balance ==
               FoldBalance(st, getTransactionsBySubAccount(st, c.u, id))
         IN [st |-> st, c |-> [c EXCEPT !.val = balance, !.pc = "rwrite"]]
    [] c.pc = "rwrite" ->
         IF id \notin DOMAIN st.subAccounts THEN Throw(st, c, "NotFound")
         ELSE NextRecalculation(
                [st EXCEPT !.subAccounts[id].balance = c.val], c)

\* An account recomputation that adds the fold to the stored total.
recalculateAccountBalanceAccumulating(st, c) ==
  LET id == Head(c.todo).id IN
  CASE c.pc = "rcheck" ->
         LET e == getAccount(st, c.u, id) IN
         IF e # "" THEN Throw(st, c, e) ELSE Goto(st, c, "rread")
    [] c.pc = "rread" ->
         LET totalBalance ==
               st.accounts[id].totalBalance
               + FoldTotal(st, getSubAccountsByAccount(st, c.u, id))
         IN [st |-> st, c |-> [c EXCEPT !.val = totalBalance, !.pc = "rwrite"]]
    [] c.pc = "rwrite" ->
         IF id \notin DOMAIN st.accounts THEN Throw(st, c, "NotFound")
         ELSE NextRecalculation(
                [st EXCEPT !.accounts[id].totalBalance = c.val], c)

recalculateAccountBalance(st, c) ==
  LET id == Head(c.todo).id IN
  CASE c.pc = "rcheck" ->
         LET e == getAccount(st, c.u, id) IN
         IF e # "" THEN Throw(st, c, e) ELSE Goto(st, c, "rread")
    [] c.pc = "rread" ->
         LET totalBalance ==
               FoldTotal(st, getSubAccountsByAccount(st, c.u, id))
         IN [st |-> st, c |-> [c EXCEPT !.val = totalBalance, !.pc = "rwrite"]]
    [] c.pc = "rwrite" ->
         IF id \notin DOMAIN st.accounts THEN Throw(st, c, "NotFound")
         ELSE NextRecalculation(
                [st EXCEPT !.accounts[id].totalBalance = c.val], c)

\* --------------------------------------------------------------- accounts
\* arg: [accountType]
createAccount(st, c) ==
  IF requireUserId(c.u) # "" THEN Throw(st, c, "Validation")
  ELSE IF validateAccountType(c.arg.accountType) # ""
  THEN Throw(st, c, "Validation")
  ELSE LET id == st.nextAccount IN
       [st |-> [st EXCEPT
                  !.accounts = Put(@, id, [userId |-> c.u,
                                           accountType |-> c.arg.accountType,
                                           totalBalance |-> 0]),
                  !.nextAccount = id + 1],
        c |-> [c EXCEPT !.pc = "done", !.ret = id]]

\* A patch written as given, no field removed.
StripNothing(p, fields) == p

\* A patch from which only userId is removed.
StripUserIdOnly(p, fields) == [f \in (DOMAIN p) \ {"userId"} |-> p[f]]

\* The fields of patch p outside `fields`.
Strip(p, fields) == [f \in (DOMAIN p) \ fields |-> p[f]]

\* arg: [accountId, updateData]
updateAccount(st, c) ==
  LET id == c.arg.accountId
      updateFields == Strip(c.arg.updateData, {"userId"})
  IN
  CASE c.pc = "start" ->
         LET e == getAccount(st, c.u, id) IN
         IF e # "" THEN Throw(st, c, e)
         ELSE IF "accountType" \in DOMAIN updateFields
                 /\ updateFields.accountType # ""
                 /\ validateAccountType(updateFields.accountType) # ""
         THEN Throw(st, c, "Validation")
         ELSE Goto(st, c, "write")
    [] c.pc = "write" ->
         IF id \notin DOMAIN st.accounts THEN Throw(st, c, "NotFound")
         ELSE [st |-> [st EXCEPT !.accounts[id] = Merge(@, updateFields)],
               c |-> [c EXCEPT !.pc = "done"]]

\* A deleteAccount whose commit enumerates the children again, as reads and
\* deletes inside one store transaction would.
deleteAccountInTransaction(st, c) ==
  LET id == c.arg.accountId IN
  CASE c.pc = "start" ->
         LET e == getAccount(st, c.u, id) IN
         IF e # "" THEN Throw(st, c, e) ELSE Goto(st, c, "subs")
    [] c.pc = "subs" ->
         LET subAccounts == getSubAccountsByAccount(st, c.u, id) IN
         [st |-> st,
          c |-> [c EXCEPT !.subIds = subAccounts, !.pending = subAccounts,
                          !.pc = IF subAccounts = {} THEN "favs" ELSE "txns"]]
    [] c.pc = "txns" ->
         LET subAccount == CHOOSE s \in c.pending :
                             \A o \in c.pending : s <= o
             transactions == getTransactionsBySubAccount(st, c.u, subAccount)
         IN [st |-> st,
             c |-> [c EXCEPT !.txnIds = @ \cup transactions,
                             !.pending = @ \ {subAccount},
                             !.pc = IF c.pending = {subAccount}
                                    THEN "favs" ELSE "txns"]]
    [] c.pc = "favs" ->
         [st |-> st,
          c |-> [c EXCEPT !.favIds = getFavoritesByAccount(st, c.u, id),
                          !.pc = "commit"]]
    [] c.pc = "commit" ->
         LET subAccounts == getSubAccountsByAccount(st, c.u, id)
             transactions ==
               {t \in DOMAIN st.transactions :
                  \E x \in subAccounts :
                    t \in getTransactionsBySubAccount(st, c.u, x)}
         IN [st |-> [st EXCEPT !.transactions = Delete(@, transactions),
                               !.subAccounts = Delete(@, subAccounts),
                               !.accounts = Delete(@, {id}),
                               !.favorites = Delete(@, c.favIds)],
             c |-> [c EXCEPT !.pc = "done"]]

\* arg: [accountId]
deleteAccount(st, c) ==
  LET id == c.arg.accountId IN
  CASE c.pc = "start" ->
         LET e == getAccount(st, c.u, id) IN
         IF e # "" THEN Throw(st, c, e) ELSE Goto(st, c, "subs")
    [] c.pc = "subs" ->
         LET subAccounts == getSubAccountsByAccount(st, c.u, id) IN
         [st |-> st,
          c |-> [c EXCEPT !.subIds = subAccounts, !.pending = subAccounts,
                          !.pc = IF subAccounts = {} THEN "favs" ELSE "txns"]]
    [] c.pc = "txns" ->
         \* one iteration of the loop over the sub-accounts
         LET subAccount == CHOOSE s \in c.pending :
                             \A o \in c.pending : s <= o
             transactions == getTransactionsBySubAccount(st, c.u, subAccount)
         IN [st |-> st,
             c |-> [c EXCEPT !.txnIds = @ \cup transactions,
                             !.pending = @ \ {subAccount},
                             !.pc = IF c.pending = {subAccount}
                                    THEN "favs" ELSE "txns"]]
    [] c.pc = "favs" ->
         [st |-> st,
          c |-> [c EXCEPT !.favIds = getFavoritesByAccount(st, c.u, id),
                          !.pc = "commit"]]
    [] c.pc = "commit" ->
         [st |-> [st EXCEPT !.transactions = Delete(@, c.txnIds),
                            !.subAccounts = Delete(@, c.subIds),
                            !.accounts = Delete(@, {id}),
                            !.favorites = Delete(@, c.favIds)],
          c |-> [c EXCEPT !.pc = "done"]]

\* ----------------------------------------------------------- sub-accounts
\* arg: [accountId]
createSubAccount(st, c) ==
  LET accountId == c.arg.accountId IN
  CASE c.pc = "start" ->
         LET e == getAccount(st, c.u, accountId) IN
         IF e # "" THEN Throw(st, c, e) ELSE Goto(st, c, "add")
    [] c.pc = "add" ->
         LET id == st.nextSubAccount IN
         [st |-> [st EXCEPT
                    !.subAccounts = Put(@, id, [userId |-> c.u,
                                                accountId |-> accountId,
                                                balance |-> 0]),
                    !.nextSubAccount = id + 1],
          c |-> [c EXCEPT !.pc = "done", !.ret = id]]

\* arg: [subAccountId, updateData]
updateSubAccount(st, c) ==
  LET id == c.arg.subAccountId
      updateFields == Strip(c.arg.updateData, {"userId", "accountId"})
  IN
  CASE c.pc = "start" ->
         LET e == getSubAccount(st, c.u, id) IN
         IF e # "" THEN Throw(st, c, e) ELSE Goto(st, c, "write")
    [] c.pc = "write" ->
         IF id \notin DOMAIN st.subAccounts THEN Throw(st, c, "NotFound")
         ELSE [st |-> [st EXCEPT !.subAccounts[id] = Merge(@, updateFields)],
               c |-> [c EXCEPT !.pc = "done"]]

\* arg: [subAccountId]
deleteSubAccount(st, c) ==
  LET id == c.arg.subAccountId IN
  CASE c.pc = "start" ->
         LET e == getSubAccount(st, c.u, id) IN
         IF e # "" THEN Throw(st, c, e) ELSE Goto(st, c, "txns")
    [] c.pc = "txns" ->
         [st |-> st,
          c |-> [c EXCEPT !.txnIds = getTransactionsBySubAccount(st, c.u, id),
                          !.pc = "favs"]]
    [] c.pc = "favs" ->
         [st |-> st,
          c |-> [c EXCEPT !.favIds = getFavoritesBySubAccount(st, c.u, id),
                          !.pc = "commit"]]
    [] c.pc = "commit" ->
         [st |-> [st EXCEPT !.transactions = Delete(@, c.txnIds),
                            !.subAccounts = Delete(@, {id}),
                            !.favorites = Delete(@, c.favIds)],
          c |-> [c EXCEPT !.pc = "parent"]]
    [] c.pc = "parent" ->
         \* the sub-account is read again, after the commit that deleted it
         LET e == getSubAccount(st, c.u, id) IN
         IF e # "" THEN Throw(st, c, e)
         ELSE Recalculate(st, c, <<Acct(st.subAccounts[id].accountId)>>)

\* ----------------------------------------------------------- transactions
\* The two documents of a transfer, and the document of an income or expense.
\* A source document written as an incoming transfer.
SourceTxnIncoming(u, d, destId) ==
  [userId |-> u, amount |-> d.amount, description |-> d.description,
   accountId |-> d.accountId, subAccountId |-> d.subAccountId,
   transactionType |-> "Transfer", transferType |-> "Incoming",
   linkedTransactionId |-> destId]

SourceTxn(u, d, destId) ==
  [userId |-> u, amount |-> d.amount, description |-> d.description,
   accountId |-> d.accountId, subAccountId |-> d.subAccountId,
   transactionType |-> "Transfer", transferType |-> "Outgoing",
   linkedTransactionId |-> destId]

\* A destination document that does not name its source.
DestTxnUnlinked(u, d, sourceId) ==
  [userId |-> u, amount |-> d.amount, description |-> d.description,
   accountId |-> d.toAccountId, subAccountId |-> d.toSubAccountId,
   transactionType |-> "Transfer", transferType |-> "Incoming",
   linkedTransactionId |-> NoId]

DestTxn(u, d, sourceId) ==
  [userId |-> u, amount |-> d.amount, description |-> d.description,
   accountId |-> d.toAccountId, subAccountId |-> d.toSubAccountId,
   transactionType |-> "Transfer", transferType |-> "Incoming",
   linkedTransactionId |-> sourceId]

PlainTxn(u, d) ==
  [userId |-> u, amount |-> d.amount, description |-> d.description,
   accountId |-> d.accountId, subAccountId |-> d.subAccountId,
   transactionType |-> d.transactionType, transferType |-> "",
   linkedTransactionId |-> NoId]

\* The recomputations createTransaction runs after a transfer's commit.
TransferRecalculations(d) ==
  <<Sub(d.subAccountId), Acct(d.accountId)>>
  \o (IF d.subAccountId # d.toSubAccountId
      THEN <<Sub(d.toSubAccountId)>>
           \o (IF d.accountId # d.toAccountId
               THEN <<Acct(d.toAccountId)>> ELSE <<>>)
      ELSE <<>>)

\* arg: transactionData = [transactionType, amount, description, accountId,
\*                         subAccountId, toAccountId, toSubAccountId]
createTransaction(st, c) ==
  LET d == c.arg IN
  CASE c.pc = "start" ->
         IF requireUserId(c.u) # "" THEN Throw(st, c, "Validation")
         ELSE IF validateTransactionType(d.transactionType) # ""
         THEN Throw(st, c, "Validation")
         ELSE IF validateAmount(d.amount) # "" THEN Throw(st, c, "Validation")
         ELSE IF d.accountId = NoId \/ d.subAccountId = NoId
         THEN Throw(st, c, "Validation")
         ELSE LET e == getAccount(st, c.u, d.accountId) IN
              IF e # "" THEN Throw(st, c, e) ELSE Goto(st, c, "sub")
    [] c.pc = "sub" ->
         LET e == getSubAccount(st, c.u, d.subAccountId) IN
         IF e # "" THEN Throw(st, c, e)
         ELSE IF d.transactionType # "Transfer" THEN Goto(st, c, "commit")
         ELSE IF d.toAccountId = NoId \/ d.toSubAccountId = NoId
         THEN Throw(st, c, "Validation")
         ELSE Goto(st, c, "toAccount")
    [] c.pc = "toAccount" ->
         LET e == getAccount(st, c.u, d.toAccountId) IN
         IF e # "" THEN Throw(st, c, e) ELSE Goto(st, c, "toSub")
    [] c.pc = "toSub" ->
         LET e == getSubAccount(st, c.u, d.toSubAccountId) IN
         IF e # "" THEN Throw(st, c, e) ELSE Goto(st, c, "commit")
    [] c.pc = "commit" ->
         IF d.transactionType = "Transfer"
         THEN LET sourceId == st.nextTransaction
                  destId == st.nextTransaction + 1
              IN Recalculate(
                   [st EXCEPT
                      !.transactions =
                         Put(Put(@, sourceId, SourceTxn(c.u, d, destId)),
                             destId, DestTxn(c.u, d, sourceId)),
                      !.nextTransaction = destId + 1],
                   [c EXCEPT !.ret = sourceId],
                   TransferRecalculations(d))
         ELSE LET id == st.nextTransaction IN
              Recalculate(
                [st EXCEPT !.transactions = Put(@, id, PlainTxn(c.u, d)),
                           !.nextTransaction = id + 1],
                [c EXCEPT !.ret = id],
                <<Sub(d.subAccountId), Acct(d.accountId)>>)

\* The fields updateTransaction writes to the target: the patch without
\* userId, and without accountId / subAccountId when they are unchanged.
UpdateFields(updateData, transaction) ==
  Strip(updateData,
        {"userId"}
        \cup (IF "accountId" \in DOMAIN updateData
                 /\ updateData.accountId = transaction.accountId
              THEN {"accountId"} ELSE {})
        \cup (IF "subAccountId" \in DOMAIN updateData
                 /\ updateData.subAccountId = transaction.subAccountId
              THEN {"subAccountId"} ELSE {}))

\* The fields updateTransaction propagates to the linked counterpart.
LinkedUpdates(updateFields) ==
  [f \in (DOMAIN updateFields) \cap {"amount", "description"}
     |-> updateFields[f]]

\* Whether the snapshot is a transfer half that names a counterpart.
IsLinked(transaction) ==
  transaction.transactionType = "Transfer"
  /\ transaction.linkedTransactionId # NoId

\* The recomputations updateTransaction and deleteTransaction run after
\* their commit, from the snapshots they took before it.
SnapshotRecalculations(c) ==
  <<Sub(c.txn[1].subAccountId), Acct(c.txn[1].accountId)>>
  \o (IF c.linked # <<>>
      THEN <<Sub(c.linked[1].subAccountId), Acct(c.linked[1].accountId)>>
      ELSE <<>>)

\* arg: [transactionId, updateData]
updateTransaction(st, c) ==
  LET id == c.arg.transactionId
      updateData == c.arg.updateData
  IN
  CASE c.pc = "start" ->
         LET e == getTransaction(st, c.u, id) IN
         IF e # "" THEN Throw(st, c, e)
         ELSE IF "amount" \in DOMAIN updateData /\ updateData.amount # 0
                 /\ validateAmount(updateData.amount) # ""
         THEN Throw(st, c, "Validation")
         ELSE IF "transactionType" \in DOMAIN updateData
                 /\ updateData.transactionType # ""
                 /\ validateTransactionType(updateData.transactionType) # ""
         THEN Throw(st, c, "Validation")
         ELSE [st |-> st,
               c |-> [c EXCEPT !.txn = <<st.transactions[id]>>,
                               !.pc = IF IsLinked(st.transactions[id])
                                      THEN "linked" ELSE "commit"]]
    [] c.pc = "linked" ->
         LET linkedId == c.txn[1].linkedTransactionId
             e == getTransaction(st, c.u, linkedId)
         IN IF e # "" THEN Throw(st, c, e)
            ELSE [st |-> st,
                  c |-> [c EXCEPT !.linked = <<st.transactions[linkedId]>>,
                                  !.pc = "commit"]]
    [] c.pc = "commit" ->
         LET updateFields == UpdateFields(updateData, c.txn[1])
             linkedId == c.txn[1].linkedTransactionId
         IN
         \* batch.update fails the whole batch when a document is missing
         IF id \notin DOMAIN st.transactions
            \/ (c.linked # <<>> /\ linkedId \notin DOMAIN st.transactions)
         THEN Throw(st, c, "NotFound")
         ELSE LET first == [st.transactions EXCEPT
                              ![id] = Merge(@, updateFields)]
                  both == IF c.linked # <<>>
                          THEN [first EXCEPT
                                  ![linkedId] =
                                     Merge(@, LinkedUpdates(updateFields))]
                          ELSE first
              IN Recalculate([st EXCEPT !.transactions = both], c,
                             SnapshotRecalculations(c))

\* arg: [transactionId]
deleteTransaction(st, c) ==
  LET id == c.arg.transactionId IN
  CASE c.pc = "start" ->
         LET e == getTransaction(st, c.u, id) IN
         IF e # "" THEN Throw(st, c, e)
         ELSE [st |-> st,
               c |-> [c EXCEPT !.txn = <<st.transactions[id]>>,
                               !.pc = IF IsLinked(st.transactions[id])
                                      THEN "linked" ELSE "commit"]]
    [] c.pc = "linked" ->
         \* inside try/catch: a failed read leaves linkedTransaction null
         LET linkedId == c.txn[1].linkedTransactionId
             e == getTransaction(st, c.u, linkedId)
         IN [st |-> st,
             c |-> [c EXCEPT !.linked = IF e # "" THEN <<>>
                                        ELSE <<st.transactions[linkedId]>>,
                             !.pc = "commit"]]
    [] c.pc = "commit" ->
         LET ids == {id} \cup (IF c.linked # <<>>
                               THEN {c.txn[1].linkedTransactionId} ELSE {})
         IN Recalculate([st EXCEPT !.transactions = Delete(@, ids)], c,
                        SnapshotRecalculations(c))

\* -------------------------------------------------------------- favorites
\* arg: [accountId, subAccountId]
addFavorite(st, c) ==
  IF requireUserId(c.u) # "" THEN Throw(st, c, "Validation")
  ELSE IF c.arg.accountId = NoId /\ c.arg.subAccountId = NoId
  THEN Throw(st, c, "Validation")
  ELSE LET id == st.nextFavorite IN
       [st |-> [st EXCEPT
                  !.favorites = Put(@, id, [userId |-> c.u,
                                            accountId |-> c.arg.accountId,
                                            subAccountId |-> c.arg.subAccountId]),
                  !.nextFavorite = id + 1],
        c |-> [c EXCEPT !.pc = "done", !.ret = id]]

\* arg: [favoriteId]
removeFavorite(st, c) ==
  LET id == c.arg.favoriteId IN
  CASE c.pc = "start" ->
         IF requireUserId(c.u) # "" \/ id = NoId
         THEN Throw(st, c, "Validation")
         ELSE IF id \notin DOMAIN st.favorites THEN Throw(st, c, "NotFound")
         ELSE IF st.favorites[id].userId # c.u
         THEN Throw(st, c, "Unauthorized")
         ELSE Goto(st, c, "delete")
    [] c.pc = "delete" ->
         [st |-> [st EXCEPT !.favorites = Delete(@, {id})],
          c |-> [c EXCEPT !.pc = "done"]]

\* ------------------------------------------------------------- execution
\* One step of a call: the handler's code up to and including its next
\* document-store round trip.
Step(st, c) ==
  CASE c.pc \in {"rcheck", "rread", "rwrite"} ->
         IF Head(c.todo).kind = "sub"
         THEN recalculateSubAccountBalance(st, c)
         ELSE recalculateAccountBalance(st, c)
    [] OTHER ->
         CASE c.op = "createAccount" -> createAccount(st, c)
           [] c.op = "updateAccount" -> updateAccount(st, c)
           [] c.op = "deleteAccount" -> deleteAccount(st, c)
           [] c.op = "createSubAccount" -> createSubAccount(st, c)
           [] c.op = "updateSubAccount" -> updateSubAccount(st, c)
           [] c.op = "deleteSubAccount" -> deleteSubAccount(st, c)
           [] c.op = "createTransaction" -> createTransaction(st, c)
           [] c.op = "updateTransaction" -> updateTransaction(st, c)
           [] c.op = "deleteTransaction" -> deleteTransaction(st, c)
           [] c.op = "addFavorite" -> addFavorite(st, c)
           [] c.op = "removeFavorite" -> removeFavorite(st, c)

\* A call run to its end with no other call in between.
RECURSIVE Run(_, _)
Run(st, c) ==
  IF Finished(c) THEN [st |-> st, c |-> c]
  ELSE LET r == Step(st, c) IN Run(r.st, r.c)

\* The exported recomputations, called directly: arg [subAccountId] / [accountId].
RecalculateSubAccountCall(u, subAccountId) ==
  [NewCall("recalculateSubAccountBalance", u, [subAccountId |-> subAccountId])
     EXCEPT !.todo = <<Sub(subAccountId)>>, !.pc = "rcheck"]

RecalculateAccountCall(u, accountId) ==
  [NewCall("recalculateAccountBalance", u, [accountId |-> accountId])
     EXCEPT !.todo = <<Acct(accountId)>>, !.pc = "rcheck"]

\* ----------------------------------------------------------------- inputs
AccountTypeInputs == {"Asset", "Bogus"}
TransactionTypeInputs == {"Income", "Expense", "Transfer", "Bogus"}
AmountInputs == Amounts \cup {0, -1}

TransactionInputs ==
  {[transactionType |-> t, amount |-> a, description |-> "d1",
    accountId |-> acc, subAccountId |-> sub,
    toAccountId |-> NoId, toSubAccountId |-> NoId] :
     t \in TransactionTypeInputs, a \in AmountInputs,
     acc \in AccountIds, sub \in SubAccountIds}
  \cup
  {[transactionType |-> "Transfer", amount |-> a, description |-> "d1",
    accountId |-> acc, subAccountId |-> sub,
    toAccountId |-> toAcc, toSubAccountId |-> toSub] :
     a \in Amounts, acc \in AccountIds, sub \in SubAccountIds,
     toAcc \in AccountIds, toSub \in SubAccountIds}

TransactionPatches ==
  {[amount |-> a] : a \in AmountInputs}
  \cup {[transactionType |-> t] : t \in TransactionTypeInputs}
  \cup {[transactionType |-> "Transfer", amount |-> MaxAmount]}
  \cup {[subAccountId |-> s] : s \in SubAccountIds}
  \cup {[accountId |-> a] : a \in AccountIds}
  \cup {[userId |-> u, description |-> "d2"] : u \in Users}

AccountPatches ==
  {[totalBalance |-> 1]}
  \cup {[accountType |-> t] : t \in AccountTypeInputs}
  \cup {[userId |-> u] : u \in Users}

SubAccountPatches ==
  {[balance |-> 1]}
  \cup {[accountId |-> a] : a \in AccountIds}
  \cup {[userId |-> u] : u \in Users}

\* ------------------------------------------------------------------ state
VARIABLES
  db,      \* the document store
  calls,   \* the calls in flight (SpecConc), by slot
  last,    \* the call that ended last, with its outcome
  ncalls,  \* the number of calls made so far
  authManager  \* the AuthManager singleton of auth-manager.js

vars == <<db, calls, last, ncalls, authManager>>

\* The AuthManager as its constructor leaves it.  NoUser is the null user.
NoUser == ""
NoAuth == ""
NewAuthManager ==
  [auth |-> NoAuth, currentUser |-> NoUser, listeners |-> <<>>,
   initialized |-> FALSE]

NoCalls == [x \in {} |-> 0]

NoCall == [op |-> "", u |-> "", arg |-> NoId, status |-> "", err |-> "",
           ret |-> NoId]

\* Ids are never reused; the model stops creating when a pool is used up.
WithinBounds(st) ==
  /\ st.nextAccount <= MaxAccounts + 1
  /\ st.nextSubAccount <= MaxSubAccounts + 1
  /\ st.nextTransaction <= MaxTransactions + 1
  /\ st.nextFavorite <= MaxFavorites + 1

\* The stores a tenant's setup leads to: any accounts and sub-accounts
\* created by createAccount and createSubAccount, and nothing else yet.
SetupCalls ==
  {NewCall("createAccount", u, [accountType |-> "Asset"]) : u \in Users}
  \cup {NewCall("createSubAccount", u, [accountId |-> a]) :
          u \in Users, a \in AccountIds}

RECURSIVE SetupStores(_, _)
SetupStores(S, n) ==
  IF n = 0 THEN S
  ELSE SetupStores(
         S \cup {r.st : r \in {x \in {Run(st, c) : st \in S, c \in SetupCalls} :
                                 x.c.pc = "done" /\ WithinBounds(x.st)}},
         n - 1)

\* The tenants are interchangeable: the first account is u1's.
InitialStores ==
  {st \in SetupStores({EmptyStore}, MaxAccounts + MaxSubAccounts) :
     1 \in DOMAIN st.accounts => st.accounts[1].userId = "u1"}

Init ==
  /\ db \in InitialStores
  /\ calls = NoCalls
  /\ last = NoCall
  /\ ncalls = 0
  /\ authManager = NewAuthManager

Outcome(c) ==
  [op |-> c.op, u |-> c.u, arg |-> c.arg, status |-> c.pc, err |-> c.err,
   ret |-> c.ret]

\* A whole call, from its entry to its return or throw, with no other call
\* in between.  A call that changes nothing in the store is a stuttering
\* step: `last` is the call that made the last change.
Call(c) ==
  /\ calls = NoCalls
  /\ \E r \in {Run(db, c)} :
       /\ r.st # db
       /\ WithinBounds(r.st)
       /\ db' = r.st
       /\ last' = Outcome(r.c)
  /\ UNCHANGED <<calls, authManager>>

\* MaxCalls bounds the calls made from the initial store; the recomputations
\* called directly are not counted (one that changes nothing takes no step).
CreateAccount(u, accountType) ==
  /\ ncalls < MaxCalls
  /\ Call(NewCall("createAccount", u, [accountType |-> accountType]))
  /\ ncalls' = ncalls + 1

UpdateAccount(u, accountId, updateData) ==
  /\ ncalls < MaxCalls
  /\ Call(NewCall("updateAccount", u,
                  [accountId |-> accountId, updateData |-> updateData]))
  /\ ncalls' = ncalls + 1

DeleteAccount(u, accountId) ==
  /\ ncalls < MaxCalls
  /\ Call(NewCall("deleteAccount", u, [accountId |-> accountId]))
  /\ ncalls' = ncalls + 1

CreateSubAccount(u, accountId) ==
  /\ ncalls < MaxCalls
  /\ Call(NewCall("createSubAccount", u, [accountId |-> accountId]))
  /\ ncalls' = ncalls + 1

UpdateSubAccount(u, subAccountId, updateData) ==
  /\ ncalls < MaxCalls
  /\ Call(NewCall("updateSubAccount", u,
                  [subAccountId |-> subAccountId, updateData |-> updateData]))
  /\ ncalls' = ncalls + 1

DeleteSubAccount(u, subAccountId) ==
  /\ ncalls < MaxCalls
  /\ Call(NewCall("deleteSubAccount", u, [subAccountId |-> subAccountId]))
  /\ ncalls' = ncalls + 1

CreateTransaction(u, transactionData) ==
  /\ ncalls < MaxCalls
  /\ Call(NewCall("createTransaction", u, transactionData))
  /\ ncalls' = ncalls + 1

UpdateTransaction(u, transactionId, updateData) ==
  /\ ncalls < MaxCalls
  /\ Call(NewCall("updateTransaction", u,
                  [transactionId |-> transactionId, updateData |-> updateData]))
  /\ ncalls' = ncalls + 1

DeleteTransaction(u, transactionId) ==
  /\ ncalls < MaxCalls
  /\ Call(NewCall("deleteTransaction", u, [transactionId |-> transactionId]))
  /\ ncalls' = ncalls + 1

RecalculateSubAccountBalance(u, subAccountId) ==
  /\ Call(RecalculateSubAccountCall(u, subAccountId))
  /\ UNCHANGED ncalls

RecalculateAccountBalance(u, accountId) ==
  /\ Call(RecalculateAccountCall(u, accountId))
  /\ UNCHANGED ncalls

AddFavorite(u, accountId, subAccountId) ==
  /\ ncalls < MaxCalls
  /\ Call(NewCall("addFavorite", u,
                  [accountId |-> accountId, subAccountId |-> subAccountId]))
  /\ ncalls' = ncalls + 1

RemoveFavorite(u, favoriteId) ==
  /\ ncalls < MaxCalls
  /\ Call(NewCall("removeFavorite", u, [favoriteId |-> favoriteId]))
  /\ ncalls' = ncalls + 1

Next ==
  \/ \E u \in Users, t \in AccountTypeInputs : CreateAccount(u, t)
  \/ \E u \in Users, a \in AccountIds, p \in AccountPatches :
       UpdateAccount(u, a, p)
  \/ \E u \in Users, a \in AccountIds : DeleteAccount(u, a)
  \/ \E u \in Users, a \in AccountIds : CreateSubAccount(u, a)
  \/ \E u \in Users, s \in SubAccountIds, p \in SubAccountPatches :
       UpdateSubAccount(u, s, p)
  \/ \E u \in Users, s \in SubAccountIds : DeleteSubAccount(u, s)
  \/ \E u \in Users, d \in TransactionInputs : CreateTransaction(u, d)
  \/ \E u \in Users, t \in TransactionIds, p \in TransactionPatches :
       UpdateTransaction(u, t, p)
  \/ \E u \in Users, t \in TransactionIds : DeleteTransaction(u, t)
  \/ \E u \in Users, s \in SubAccountIds :
       RecalculateSubAccountBalance(u, s)
  \/ \E u \in Users, a \in AccountIds : RecalculateAccountBalance(u, a)
  \/ \E u \in Users, a \in AccountIds \cup {NoId},
        s \in SubAccountIds \cup {NoId} : AddFavorite(u, a, s)
  \/ \E u \in Users, f \in FavoriteIds : RemoveFavorite(u, f)

Spec == Init /\ [][Next]_vars

\* ------------------------------------------------------ overlapping calls
\* SpecConc: the calls of tenant u1 overlap (the other tenant only adds
\* favorites).  A call takes one step at a
\* time (Step); between two of its steps any other call may take steps.  A
\* batch commit is one step: the document store applies a batch atomically.
ConcUser == "u1"

ConcInitialStores ==
  {st \in InitialStores :
     /\ \A a \in DOMAIN st.accounts : st.accounts[a].userId = ConcUser
     /\ \A x \in DOMAIN st.subAccounts : st.subAccounts[x].userId = ConcUser}

ConcTransactionInputs ==
  {d \in TransactionInputs :
     \/ d.transactionType = "Income"
     \/ d.transactionType = "Transfer" /\ d.amount = 1 /\ d.toAccountId # NoId}

ConcCalls ==
  {NewCall("createSubAccount", ConcUser, [accountId |-> a]) : a \in AccountIds}
  \cup {NewCall("createTransaction", ConcUser, d) : d \in ConcTransactionInputs}
  \cup {NewCall("updateTransaction", ConcUser,
                [transactionId |-> t, updateData |-> [amount |-> MaxAmount]]) :
          t \in TransactionIds}
  \cup {NewCall("deleteTransaction", ConcUser, [transactionId |-> t]) :
          t \in TransactionIds}
  \cup {NewCall("deleteSubAccount", ConcUser, [subAccountId |-> x]) :
          x \in SubAccountIds}
  \cup {NewCall("deleteAccount", ConcUser, [accountId |-> a]) : a \in AccountIds}
  \cup {NewCall("addFavorite", u, [accountId |-> NoId, subAccountId |-> x]) :
          u \in Users, x \in SubAccountIds}
  \cup {RecalculateSubAccountCall(ConcUser, x) : x \in SubAccountIds}
  \cup {RecalculateAccountCall(ConcUser, a) : a \in AccountIds}

\* The ids a call may still allocate.
Allocates(c, coll) ==
  IF Finished(c) THEN 0
  ELSE CASE coll = "transactions" /\ c.op = "createTransaction" ->
              IF c.arg.transactionType = "Transfer" THEN 2 ELSE 1
         [] coll = "subAccounts" /\ c.op = "createSubAccount" -> 1
         [] coll = "favorites" /\ c.op = "addFavorite" -> 1
         [] OTHER -> 0

RECURSIVE Reserved(_, _, _)
Reserved(cs, slots, coll) ==
  IF slots = {} THEN 0
  ELSE LET x == CHOOSE y \in slots : TRUE
       IN Allocates(cs[x], coll) + Reserved(cs, slots \ {x}, coll)

\* The pools have room for every call in flight.
HasRoom(cs) ==
  /\ db.nextTransaction - 1 + Reserved(cs, DOMAIN cs, "transactions")
       <= MaxTransactions
  /\ db.nextSubAccount - 1 + Reserved(cs, DOMAIN cs, "subAccounts")
       <= MaxSubAccounts
  /\ db.nextFavorite - 1 + Reserved(cs, DOMAIN cs, "favorites")
       <= MaxFavorites

\* The step of call c in slot k.
Advance(k, c) ==
  \E r \in {Step(db, c)} :
    /\ db' = r.st
    /\ calls' = [x \in (DOMAIN calls) \cup {k} |->
                   IF x = k THEN r.c ELSE calls[x]]
    /\ last' = IF Finished(r.c) THEN Outcome(r.c) ELSE last
    /\ UNCHANGED authManager

\* A call is made: it runs up to its first round trip.
StartCall(c) ==
  /\ ncalls < MaxCalls
  /\ HasRoom([x \in (DOMAIN calls) \cup {ncalls + 1} |->
                IF x = ncalls + 1 THEN c ELSE calls[x]])
  /\ Advance(ncalls + 1, c)
  /\ ncalls' = ncalls + 1

\* A call in flight takes its next step.
StepCall(k) ==
  /\ ~Finished(calls[k])
  /\ Advance(k, calls[k])
  /\ UNCHANGED ncalls

InitConc ==
  /\ db \in ConcInitialStores
  /\ calls = NoCalls
  /\ last = NoCall
  /\ ncalls = 0
  /\ authManager = NewAuthManager

NextConc ==
  \/ \E c \in ConcCalls : StartCall(c)
  \/ \E k \in DOMAIN calls : StepCall(k)

SpecConc == InitConc /\ [][NextConc]_vars

\* ============================================================ properties
\* What a stored transaction adds to the balance of its sub-account.
Contribution(txn) ==
  CASE txn.transactionType = "Income" -> txn.amount
    [] txn.transactionType = "Expense" -> -txn.amount
    [] txn.transactionType = "Transfer" /\ txn.transferType = "Incoming" ->
         txn.amount
    [] txn.transactionType = "Transfer" /\ txn.transferType # "Incoming" ->
         -txn.amount
    [] OTHER -> 0

\* The signed sum of tenant u's stored transactions on sub-account s.
LedgerSum(st, u, s) ==
  SumOver([t \in DOMAIN st.transactions |-> Contribution(st.transactions[t])],
          {t \in DOMAIN st.transactions :
             /\ st.transactions[t].subAccountId = s
             /\ st.transactions[t].userId = u})

\* The sum of the stored balances of tenant u's sub-accounts under account a.
ChildrenSum(st, u, a) ==
  SumOver([x \in DOMAIN st.subAccounts |-> st.subAccounts[x].balance],
          {x \in DOMAIN st.subAccounts :
             /\ st.subAccounts[x].accountId = a
             /\ st.subAccounts[x].userId = u})

\* Every stored sub-account balance is the signed sum of its owner's log.
SubAccountsFollowLog(st) ==
  \A s \in DOMAIN st.subAccounts :
    st.subAccounts[s].balance = LedgerSum(st, st.subAccounts[s].userId, s)

Returned(op) == last.op = op /\ last.status = "done"

\* C1: recalculateSubAccountBalance(u, S), run alone, stores in S.balance and
\* returns the sum over the stored transactions with subAccountId = S and
\* userId = u of +amount (Income, Transfer Incoming) and -amount (Expense,
\* Transfer Outgoing or without transferType).  Stated of every reachable
\* store the recomputation can be called on, and of the store it left.
C1_RecalculateSubAccountBalance ==
  /\ \A u \in Users, s \in SubAccountIds :
       \A r \in {Run(db, RecalculateSubAccountCall(u, s))} :
         r.c.pc = "done" =>
           /\ r.st.subAccounts[s].balance = LedgerSum(db, u, s)
           /\ r.c.ret = LedgerSum(db, u, s)
  /\ Returned("recalculateSubAccountBalance") =>
       /\ db.subAccounts[last.arg.subAccountId].balance = last.ret
       /\ last.ret = LedgerSum(db, last.u, last.arg.subAccountId)

\* A recomputation has corrected the balance of a sub-account that holds an
\* incoming transfer.
C1_Witness ==
  /\ Returned("recalculateSubAccountBalance")
  /\ last.ret > 0
  /\ \E t \in DOMAIN db.transactions :
       /\ db.transactions[t].subAccountId = last.arg.subAccountId
       /\ db.transactions[t].transactionType = "Transfer"
       /\ db.transactions[t].transferType = "Incoming"

\* C2: recalculateAccountBalance(u, A), run alone, stores in A.totalBalance
\* and returns the sum of the stored balance fields of the sub-accounts with
\* accountId = A and userId = u; the transaction log is not consulted.
C2_RecalculateAccountBalance ==
  /\ \A u \in Users, a \in AccountIds :
       \A r \in {Run(db, RecalculateAccountCall(u, a))} :
         r.c.pc = "done" =>
           /\ r.st.accounts[a].totalBalance = ChildrenSum(db, u, a)
           /\ r.c.ret = ChildrenSum(db, u, a)
           /\ r.st.transactions = db.transactions
           /\ r.st.subAccounts = db.subAccounts
  /\ Returned("recalculateAccountBalance") =>
       /\ db.accounts[last.arg.accountId].totalBalance = last.ret
       /\ last.ret = ChildrenSum(db, last.u, last.arg.accountId)

\* A recomputation has stored an account total while a child's stored
\* balance differs from the sum of its log.
C2_Witness ==
  /\ Returned("recalculateAccountBalance")
  /\ last.ret # 0
  /\ \E x \in DOMAIN db.subAccounts :
       /\ db.subAccounts[x].accountId = last.arg.accountId
       /\ db.subAccounts[x].userId = last.u
       /\ db.subAccounts[x].balance # LedgerSum(db, last.u, x)

TransactionWrites ==
  {"createTransaction", "updateTransaction", "deleteTransaction"}

\* C3: when calls run one at a time, a createTransaction, updateTransaction
\* or deleteTransaction that returns leaves every stored sub-account balance
\* equal to the signed sum of the transactions stored on that sub-account,
\* whatever the patch (stated from stores where the balances are equal).
C3_BalancesFollowTransactions ==
  [][(/\ SubAccountsFollowLog(db)
      /\ last'.op \in TransactionWrites
      /\ last'.status = "done")
     => SubAccountsFollowLog(db')]_vars

\* The account a sub-account is stored under.
ParentIs(st, s, a) ==
  s \in DOMAIN st.subAccounts /\ st.subAccounts[s].accountId = a

\* C4: when createTransaction for a Transfer returns, the balances of the
\* source and destination sub-accounts equal the signed sums of their logs
\* and the totalBalance of the source and destination accounts equals the
\* sum of their children's balances, also for two sub-accounts of one
\* account (stated for transfers that name each sub-account's own account).
C4_TransferBalances ==
  (/\ Returned("createTransaction")
   /\ last.arg.transactionType = "Transfer"
   /\ ParentIs(db, last.arg.subAccountId, last.arg.accountId)
   /\ ParentIs(db, last.arg.toSubAccountId, last.arg.toAccountId))
  => /\ \A s \in {last.arg.subAccountId, last.arg.toSubAccountId} :
          db.subAccounts[s].balance = LedgerSum(db, last.u, s)
     /\ \A a \in {last.arg.accountId, last.arg.toAccountId} :
          db.accounts[a].totalBalance = ChildrenSum(db, last.u, a)

\* Transactions t and l are the two halves of a transfer: both are of type
\* Transfer and each names the other.
LinkedPair(st, t, l) ==
  /\ t \in DOMAIN st.transactions
  /\ l \in DOMAIN st.transactions
  /\ t # l
  /\ st.transactions[t].transactionType = "Transfer"
  /\ st.transactions[l].transactionType = "Transfer"
  /\ st.transactions[t].linkedTransactionId = l
  /\ st.transactions[l].linkedTransactionId = t

\* C6: deleteTransaction on either half of a linked transfer removes both
\* halves, and when it returns the balance of each half's sub-account is the
\* signed sum of its remaining log and the totalBalance of each half's
\* account is the sum of its children's balances: the transfer is in none
\* of them any more.
C6_DeleteTransferHalf ==
  [][\A t, l \in TransactionIds :
       (/\ LinkedPair(db, t, l)
        /\ last'.op = "deleteTransaction"
        /\ last'.status = "done"
        /\ last'.arg.transactionId = t)
       => /\ t \notin DOMAIN db'.transactions
          /\ l \notin DOMAIN db'.transactions
          /\ \A x \in {t, l} :
               LET s == db.transactions[x].subAccountId
                   a == db.transactions[x].accountId
               IN /\ db'.subAccounts[s].balance = LedgerSum(db', last'.u, s)
                  /\ db'.accounts[a].totalBalance = ChildrenSum(db', last'.u, a)
    ]_vars

\* The shared fields of every two transfer halves that name each other agree.
LinkedTransfersAgree(st) ==
  \A t, l \in DOMAIN st.transactions :
    LinkedPair(st, t, l) =>
      /\ st.transactions[t].amount = st.transactions[l].amount
      /\ st.transactions[t].description = st.transactions[l].description

\* C7: in every reachable state two Transfer documents that link to each
\* other agree on their shared fields (amount, and description standing for
\* transactionDate, description, category and tags).  Stated of every
\* reachable store and of the store any further updateTransaction leaves.
C7_LinkedTransfersAgree ==
  /\ LinkedTransfersAgree(db)
  /\ \A u \in Users, t \in TransactionIds, p \in TransactionPatches :
       LinkedTransfersAgree(
         Run(db, NewCall("updateTransaction", u,
                         [transactionId |-> t, updateData |-> p])).st)

\* C8: after deleteAccount(u, A) returns, tenant u has no SubAccount, no
\* Transaction and no Favorite with accountId = A.
C8_DeleteAccountLeavesNoReference ==
  Returned("deleteAccount") =>
    LET A == last.arg.accountId IN
    /\ \A x \in DOMAIN db.subAccounts :
         ~(db.subAccounts[x].accountId = A /\ db.subAccounts[x].userId = last.u)
    /\ \A t \in DOMAIN db.transactions :
         ~(db.transactions[t].accountId = A
           /\ db.transactions[t].userId = last.u)
    /\ \A f \in DOMAIN db.favorites :
         ~(db.favorites[f].accountId = A /\ db.favorites[f].userId = last.u)

\* C9: deleteAccount(u, A) deletes with the account every Favorite of the
\* tenant whose subAccountId names a child sub-account of A.
C9_DeleteAccountDeletesChildFavorites ==
  [][(last'.op = "deleteAccount" /\ last'.status = "done")
     => \A f \in DOMAIN db.favorites :
          (/\ db.favorites[f].userId = last'.u
           /\ ParentIs(db, db.favorites[f].subAccountId, last'.arg.accountId)
           /\ db.subAccounts[db.favorites[f].subAccountId].userId = last'.u)
          => f \notin DOMAIN db'.favorites
    ]_vars

\* In the step taken, call k has moved.
Moved(k) == k \notin DOMAIN calls \/ calls'[k] # calls[k]

\* C5: a createTransaction for a Transfer adds its two documents in one
\* commit and in no other step: exactly two new documents, the Outgoing one
\* on the source sub-account (its id is returned) and the Incoming one on
\* the destination sub-account, of the same amount, each naming the other;
\* no step leaves the store with one of the two and not the other.
C5_TransferCreatesLinkedPair ==
  [][\A k \in DOMAIN calls' :
       (/\ calls'[k].op = "createTransaction"
        /\ calls'[k].arg.transactionType = "Transfer"
        /\ Moved(k))
       => LET d == calls'[k].arg
              new == DOMAIN db'.transactions \ DOMAIN db.transactions
          IN IF k \in DOMAIN calls /\ calls[k].pc = "commit"
             THEN /\ \E s, t \in new :
                       /\ s # t
                       /\ new = {s, t}
                       /\ calls'[k].ret = s
                       /\ LinkedPair(db', s, t)
                       /\ db'.transactions[s].transferType = "Outgoing"
                       /\ db'.transactions[s].subAccountId = d.subAccountId
                       /\ db'.transactions[t].transferType = "Incoming"
                       /\ db'.transactions[t].subAccountId = d.toSubAccountId
                       /\ db'.transactions[s].amount = d.amount
                       /\ db'.transactions[t].amount = d.amount
                  /\ \A x \in DOMAIN db.transactions :
                       /\ x \in DOMAIN db'.transactions
                       /\ db'.transactions[x] = db.transactions[x]
             ELSE db'.transactions = db.transactions
    ]_vars

\* A transfer has been created and has returned; both halves are stored.
C5_Witness ==
  \E k \in DOMAIN calls :
    /\ calls[k].op = "createTransaction"
    /\ calls[k].arg.transactionType = "Transfer"
    /\ calls[k].arg.subAccountId # calls[k].arg.toSubAccountId
    /\ calls[k].pc = "done"
    /\ calls[k].ret \in DOMAIN db.transactions
    /\ LinkedPair(db, calls[k].ret, db.transactions[calls[k].ret].linkedTransactionId)

\* Tenant u's transactions and favorites that name sub-account s.
TransactionsNaming(st, u, s) ==
  {t \in DOMAIN st.transactions :
     st.transactions[t].subAccountId = s /\ st.transactions[t].userId = u}

FavoritesNaming(st, u, s) ==
  {f \in DOMAIN st.favorites :
     st.favorites[f].subAccountId = s /\ st.favorites[f].userId = u}

\* C10 as stated: once deleteSubAccount(u, S) has committed, no state holds
\* a transaction or favorite (of the tenant) with subAccountId = S.
C10_NothingNamesDeletedSubAccount ==
  \A k \in DOMAIN calls :
    (calls[k].op = "deleteSubAccount" /\ calls[k].pc = "parent")
    => /\ TransactionsNaming(db, calls[k].u, calls[k].arg.subAccountId) = {}
       /\ FavoritesNaming(db, calls[k].u, calls[k].arg.subAccountId) = {}

\* C10, amended: deleteSubAccount(u, S) reads the tenant's transactions and
\* then the tenant's favorites with subAccountId = S, and removes S and
\* exactly the documents those two reads returned in one commit; no other
\* step of the call writes, and the commit changes nothing else.
C10_DeleteSubAccountCommitsWhatItRead ==
  [][\A k \in DOMAIN calls' :
       (calls'[k].op = "deleteSubAccount" /\ Moved(k))
       => LET S == calls'[k].arg.subAccountId
              u == calls'[k].u
              pc == IF k \in DOMAIN calls THEN calls[k].pc ELSE "start"
          IN CASE pc = "txns" ->
                    /\ db' = db
                    /\ calls'[k].txnIds = TransactionsNaming(db, u, S)
               [] pc = "favs" ->
                    /\ db' = db
                    /\ calls'[k].favIds = FavoritesNaming(db, u, S)
               [] pc = "commit" ->
                    /\ DOMAIN db'.subAccounts = DOMAIN db.subAccounts \ {S}
                    /\ DOMAIN db'.transactions =
                         DOMAIN db.transactions \ calls[k].txnIds
                    /\ DOMAIN db'.favorites =
                         DOMAIN db.favorites \ calls[k].favIds
                    /\ \A x \in DOMAIN db'.subAccounts :
                         db'.subAccounts[x] = db.subAccounts[x]
                    /\ \A x \in DOMAIN db'.transactions :
                         db'.transactions[x] = db.transactions[x]
                    /\ \A x \in DOMAIN db'.favorites :
                         db'.favorites[x] = db.favorites[x]
                    /\ db'.accounts = db.accounts
               [] OTHER -> db' = db
    ]_vars

\* A deleteSubAccount has committed: the sub-account and the transaction it
\* read are gone together.
C10_Witness ==
  \E k \in DOMAIN calls :
    /\ calls[k].op = "deleteSubAccount"
    /\ calls[k].pc = "parent"
    /\ calls[k].txnIds # {}
    /\ calls[k].arg.subAccountId \notin DOMAIN db.subAccounts
    /\ calls[k].txnIds \cap DOMAIN db.transactions = {}

\* C11: deleteSubAccount(u, S) on an existing sub-account owned by the
\* caller returns without error, and when it returns the totalBalance of the
\* parent account is the sum of the balances of its remaining sub-accounts.
C11_DeleteSubAccountReturns ==
  \A u \in Users, s \in SubAccountIds :
    getSubAccount(db, u, s) = "" =>
      \A r \in {Run(db, NewCall("deleteSubAccount", u, [subAccountId |-> s]))} :
        LET parent == db.subAccounts[s].accountId IN
        /\ r.c.pc = "done"
        /\ parent \in DOMAIN r.st.accounts =>
             r.st.accounts[parent].totalBalance = ChildrenSum(r.st, u, parent)

\* Document id of collection coll exists and belongs to a tenant other than u.
Foreign(st, coll, id, u) ==
  id \in DOMAIN st[coll] /\ st[coll][id].userId # u

\* The calls of tenant u that target one document: <<call, collection, id>>.
TargetedCalls(u) ==
  {<<NewCall("updateAccount", u, [accountId |-> a, updateData |-> p]),
     "accounts", a>> : a \in AccountIds, p \in AccountPatches}
  \cup {<<NewCall("deleteAccount", u, [accountId |-> a]), "accounts", a>> :
          a \in AccountIds}
  \cup {<<NewCall("createSubAccount", u, [accountId |-> a]), "accounts", a>> :
          a \in AccountIds}
  \cup {<<RecalculateAccountCall(u, a), "accounts", a>> : a \in AccountIds}
  \cup {<<NewCall("updateSubAccount", u, [subAccountId |-> x, updateData |-> p]),
          "subAccounts", x>> : x \in SubAccountIds, p \in SubAccountPatches}
  \cup {<<NewCall("deleteSubAccount", u, [subAccountId |-> x]),
          "subAccounts", x>> : x \in SubAccountIds}
  \cup {<<RecalculateSubAccountCall(u, x), "subAccounts", x>> :
          x \in SubAccountIds}
  \cup {<<NewCall("updateTransaction", u, [transactionId |-> t, updateData |-> p]),
          "transactions", t>> : t \in TransactionIds, p \in TransactionPatches}
  \cup {<<NewCall("deleteTransaction", u, [transactionId |-> t]),
          "transactions", t>> : t \in TransactionIds}
  \cup {<<NewCall("removeFavorite", u, [favoriteId |-> f]), "favorites", f>> :
          f \in FavoriteIds}

\* The documents transactionData d refers to: <<collection, id>>.
Referenced(d) ==
  {<<"accounts", d.accountId>>, <<"subAccounts", d.subAccountId>>}
  \cup (IF d.transactionType = "Transfer"
        THEN {<<"accounts", d.toAccountId>>, <<"subAccounts", d.toSubAccountId>>}
        ELSE {})

\* The call fails with error e and leaves the store as it is.
RejectedWith(c, e) ==
  \A r \in {Run(db, c)} : r.st = db /\ r.c.pc = "failed" /\ r.c.err \in e

AnyError == {"Validation", "NotFound", "Unauthorized"}

\* C12 as stated: every call on a document of another tenant, createTransaction
\* for every transactionData included, fails with Unauthorized and leaves
\* the store unchanged.
C12_ForeignTargetUnauthorized ==
  \A u \in Users :
    /\ \A x \in TargetedCalls(u) :
         Foreign(db, x[2], x[3], u) => RejectedWith(x[1], {"Unauthorized"})
    /\ \A d \in TransactionInputs :
         (\E e \in Referenced(d) : Foreign(db, e[1], e[2], u))
         => RejectedWith(NewCall("createTransaction", u, d), {"Unauthorized"})

\* C12, amended: a get, update, delete, recalculate, removeFavorite or
\* createSubAccount on a document of another tenant fails with Unauthorized
\* and changes nothing.  createTransaction that names a document of another
\* tenant fails and changes nothing; its error is Unauthorized when
\* transactionType and amount are valid and every document it names exists,
\* and otherwise the error of the check that rejects first.
C12_ForeignTargetRejected ==
  \A u \in Users :
    /\ \A x \in TargetedCalls(u) :
         Foreign(db, x[2], x[3], u) => RejectedWith(x[1], {"Unauthorized"})
    /\ \A a \in AccountIds :
         Foreign(db, "accounts", a, u) => getAccount(db, u, a) = "Unauthorized"
    /\ \A x \in SubAccountIds :
         Foreign(db, "subAccounts", x, u)
         => getSubAccount(db, u, x) = "Unauthorized"
    /\ \A t \in TransactionIds :
         Foreign(db, "transactions", t, u)
         => getTransaction(db, u, t) = "Unauthorized"
    /\ \A d \in TransactionInputs :
         (\E e \in Referenced(d) : Foreign(db, e[1], e[2], u))
         => /\ RejectedWith(NewCall("createTransaction", u, d), AnyError)
            /\ (/\ validateTransactionType(d.transactionType) = ""
                /\ validateAmount(d.amount) = ""
                /\ \A e \in Referenced(d) : e[2] \in DOMAIN db[e[1]])
               => RejectedWith(NewCall("createTransaction", u, d),
                               {"Unauthorized"})

\* Tenant u2 is refused: the deletion of a transaction of u1, and a transfer
\* from its own sub-account into a sub-account of u1.
C12_Witness ==
  /\ \E t \in DOMAIN db.transactions :
       /\ db.transactions[t].userId = "u1"
       /\ RejectedWith(NewCall("deleteTransaction", "u2", [transactionId |-> t]),
                       {"Unauthorized"})
  /\ \E d \in TransactionInputs :
       /\ d.transactionType = "Transfer"
       /\ ~Foreign(db, "subAccounts", d.subAccountId, "u2")
       /\ Foreign(db, "subAccounts", d.toSubAccountId, "u2")
       /\ Run(db, NewCall("createTransaction", "u2", d)).c.err = "Unauthorized"
       /\ getSubAccount(db, "u2", d.subAccountId) = ""

Collections == {"accounts", "subAccounts", "transactions", "favorites"}

\* The documents a query returned: <<id, document>>.
Docs(coll, ids) == {<<id, coll[id]>> : id \in ids}

\* What the list operations return to tenant u.
ListResults(st, u) ==
  [getAccounts |-> Docs(st.accounts, getAccounts(st, u)),
   getSubAccountsByAccount |->
     [a \in AccountIds |->
        Docs(st.subAccounts, getSubAccountsByAccount(st, u, a))],
   getTransactionsBySubAccount |->
     [x \in SubAccountIds |->
        Docs(st.transactions, getTransactionsBySubAccount(st, u, x))],
   getAllTransactions |-> Docs(st.transactions, getAllTransactions(st, u)),
   getFavorites |-> Docs(st.favorites, getFavorites(st, u))]

OnlyOf(u, docs) == \A x \in docs : x[2].userId = u

\* C13: a call made with tenant id X creates, modifies or deletes no
\* document whose userId is another tenant's; the list operations return to
\* a tenant only documents with its own userId; and a call of one tenant
\* changes nothing in what the list operations return to another.
C13_TenantIsolation ==
  [][/\ \A coll \in Collections :
          /\ \A id \in DOMAIN db[coll] :
               db[coll][id].userId # last'.u
               => id \in DOMAIN db'[coll] /\ db'[coll][id] = db[coll][id]
          /\ \A id \in DOMAIN db'[coll] \ DOMAIN db[coll] :
               db'[coll][id].userId = last'.u
     /\ \A x \in Users \ {last'.u} : ListResults(db', x) = ListResults(db, x)
     /\ \A x \in Users :
          LET res == ListResults(db', x) IN
          /\ OnlyOf(x, res.getAccounts)
          /\ OnlyOf(x, res.getAllTransactions)
          /\ OnlyOf(x, res.getFavorites)
          /\ \A a \in AccountIds : OnlyOf(x, res.getSubAccountsByAccount[a])
          /\ \A y \in SubAccountIds :
               OnlyOf(x, res.getTransactionsBySubAccount[y])
    ]_vars

\* Tenant u2 has moved a transaction of its own onto a sub-account of u1.
C13_Witness ==
  /\ last.u = "u2"
  /\ last.op = "updateTransaction"
  /\ \E t \in DOMAIN db.transactions :
       /\ db.transactions[t].userId = "u2"
       /\ Foreign(db, "subAccounts", db.transactions[t].subAccountId, "u2")

\* Every call of the writing operations with caller id u.
AllCalls(u) ==
  {x[1] : x \in TargetedCalls(u)}
  \cup {NewCall("createAccount", u, [accountType |-> t]) : t \in AccountTypeInputs}
  \cup {NewCall("createTransaction", u, d) : d \in TransactionInputs}
  \cup {NewCall("addFavorite", u, [accountId |-> a, subAccountId |-> x]) :
          a \in AccountIds \cup {NoId}, x \in SubAccountIds \cup {NoId}}

\* An exported read with caller id u: the error it throws, or "" and what
\* it returns.
Exported(u, result) ==
  IF requireUserId(u) # "" THEN [err |-> "Validation", result |-> {}]
  ELSE [err |-> "", result |-> result]

\* C14: every exported operation called with a tenant id that is missing,
\* not a string or blank fails in its first step, on validation, before any
\* document is read or written: the store is unchanged.
C14_InvalidTenantIdRejected ==
  \A u \in InvalidUserIds :
    /\ \A c \in AllCalls(u) : Step(db, c) = Throw(db, c, "Validation")
    /\ \A a \in AccountIds : getAccount(db, u, a) = "Validation"
    /\ \A x \in SubAccountIds : getSubAccount(db, u, x) = "Validation"
    /\ \A t \in TransactionIds : getTransaction(db, u, t) = "Validation"
    /\ Exported(u, getAccounts(db, u)).err = "Validation"
    /\ Exported(u, getAllTransactions(db, u)).err = "Validation"
    /\ Exported(u, getFavorites(db, u)).err = "Validation"
    /\ \A a \in AccountIds :
         Exported(u, getSubAccountsByAccount(db, u, a)).err = "Validation"
    /\ \A x \in SubAccountIds :
         Exported(u, getTransactionsBySubAccount(db, u, x)).err = "Validation"

\* The store holds a transaction and a favorite, and a delete of each with a
\* blank tenant id is refused.
C14_Witness ==
  /\ \E t \in DOMAIN db.transactions :
       RejectedWith(NewCall("deleteTransaction", Blank, [transactionId |-> t]),
                    {"Validation"})
  /\ \E f \in DOMAIN db.favorites :
       RejectedWith(NewCall("removeFavorite", "<number>", [favoriteId |-> f]),
                    {"Validation"})

\* The outcome of call c on store st, without its arguments.
Result(st, c) ==
  LET r == Run(st, c) IN [st |-> r.st, status |-> r.c.pc, err |-> r.c.err]

\* C15: the userId stored in a document never changes after creation: no
\* step changes it, and updateAccount, updateSubAccount and
\* updateTransaction given a patch with a userId drop that field, apply the
\* rest of the patch and end as they do without it (without an error for a
\* document of the caller).
C15_UserIdNeverChanges ==
  [][/\ \A coll \in Collections :
          \A id \in (DOMAIN db[coll]) \cap (DOMAIN db'[coll]) :
            db'[coll][id].userId = db[coll][id].userId
     /\ \A u, v \in Users :
          /\ \A a \in DOMAIN db'.accounts :
               db'.accounts[a].userId = u =>
                 \A r \in {Run(db', NewCall("updateAccount", u,
                              [accountId |-> a,
                               updateData |-> [userId |-> v,
                                               totalBalance |-> 1]]))} :
                   /\ r.c.pc = "done"
                   /\ r.st.accounts[a].userId = u
                   /\ r.st.accounts[a].totalBalance = 1
          /\ \A x \in DOMAIN db'.subAccounts :
               db'.subAccounts[x].userId = u =>
                 \A r \in {Run(db', NewCall("updateSubAccount", u,
                              [subAccountId |-> x,
                               updateData |-> [userId |-> v, balance |-> 1]]))} :
                   /\ r.c.pc = "done"
                   /\ r.st.subAccounts[x].userId = u
                   /\ r.st.subAccounts[x].balance = 1
          /\ \A t \in DOMAIN db'.transactions :
               db'.transactions[t].userId = u =>
                 \A r \in {Result(db', NewCall("updateTransaction", u,
                              [transactionId |-> t,
                               updateData |-> [userId |-> v,
                                               description |-> "d2"]]))} :
                   /\ r = Result(db', NewCall("updateTransaction", u,
                                   [transactionId |-> t,
                                    updateData |-> [description |-> "d2"]]))
                   /\ t \in DOMAIN r.st.transactions
                   /\ r.st.transactions[t].userId = u
                   /\ r.status = "done" => r.st.transactions[t].description = "d2"
    ]_vars

\* An updateTransaction whose patch named the other tenant has returned:
\* the description is written, the userId is the caller's.
C15_Witness ==
  /\ Returned("updateTransaction")
  /\ "userId" \in DOMAIN last.arg.updateData
  /\ last.arg.updateData.userId # last.u
  /\ db.transactions[last.arg.transactionId].userId = last.u
  /\ db.transactions[last.arg.transactionId].description = "d2"

\* C16: the accountId and subAccountId stored in a transaction never change
\* after creation, whatever patch updateTransaction is given.
C16_TransactionKeepsItsAccounts ==
  [][\A t \in (DOMAIN db.transactions) \cap (DOMAIN db'.transactions) :
       /\ db'.transactions[t].accountId = db.transactions[t].accountId
       /\ db'.transactions[t].subAccountId = db.transactions[t].subAccountId
    ]_vars

\* C17: in every reachable state every stored transaction has amount > 0.
C17_AmountsPositive ==
  \A t \in DOMAIN db.transactions : db.transactions[t].amount > 0

\* Document id of collection coll exists and belongs to tenant u.
Owned(st, coll, id, u) ==
  id \in DOMAIN st[coll] /\ st[coll][id].userId = u

\* C18: createTransaction with a transactionType outside Income, Expense,
\* Transfer, with a non-positive amount, or naming an account or sub-account
\* that does not exist or is not the caller's, raises an error and leaves the
\* store as it is: no transaction is written and no balance is modified.
C18_CreateTransactionRejectsInvalid ==
  \A u \in Users, d \in TransactionInputs :
    (\/ d.transactionType \notin {"Income", "Expense", "Transfer"}
     \/ d.amount <= 0
     \/ ~Owned(db, "accounts", d.accountId, u)
     \/ ~Owned(db, "subAccounts", d.subAccountId, u))
    => RejectedWith(NewCall("createTransaction", u, d), AnyError)

\* The store holds a transaction, and createTransaction of u1 is refused for
\* an unknown type, for amount zero, for a sub-account that does not exist and
\* for an account of another tenant.
C18_Witness ==
  /\ db.transactions # EmptyColl
  /\ \E d \in TransactionInputs :
       /\ d.transactionType = "Bogus" /\ d.amount > 0
       /\ Owned(db, "accounts", d.accountId, "u1")
       /\ Owned(db, "subAccounts", d.subAccountId, "u1")
       /\ RejectedWith(NewCall("createTransaction", "u1", d), {"Validation"})
  /\ \E d \in TransactionInputs :
       /\ d.transactionType = "Income" /\ d.amount = 0
       /\ Owned(db, "accounts", d.accountId, "u1")
       /\ Owned(db, "subAccounts", d.subAccountId, "u1")
       /\ RejectedWith(NewCall("createTransaction", "u1", d), {"Validation"})
  /\ \E d \in TransactionInputs :
       /\ d.transactionType = "Expense" /\ d.amount > 0
       /\ Owned(db, "accounts", d.accountId, "u1")
       /\ d.subAccountId \notin DOMAIN db.subAccounts
       /\ RejectedWith(NewCall("createTransaction", "u1", d), {"NotFound"})
  /\ \E d \in TransactionInputs :
       /\ d.transactionType = "Income" /\ d.amount > 0
       /\ Foreign(db, "accounts", d.accountId, "u1")
       /\ RejectedWith(NewCall("createTransaction", "u1", d), {"Unauthorized"})

\* Transfers with every destination, a missing toAccountId or toSubAccountId
\* included.
TransferInputs ==
  {[transactionType |-> "Transfer", amount |-> a, description |-> "d1",
    accountId |-> acc, subAccountId |-> sub,
    toAccountId |-> toAcc, toSubAccountId |-> toSub] :
     a \in Amounts, acc \in AccountIds, sub \in SubAccountIds,
     toAcc \in AccountIds \cup {NoId}, toSub \in SubAccountIds \cup {NoId}}

\* C19: createTransaction for a Transfer whose toAccountId or toSubAccountId
\* is missing, does not exist or is not the caller's raises an error and
\* commits nothing: neither half of the pair is written and no balance
\* changes.
C19_TransferRejectsInvalidDestination ==
  \A u \in Users, d \in TransferInputs :
    (\/ ~Owned(db, "accounts", d.toAccountId, u)
     \/ ~Owned(db, "subAccounts", d.toSubAccountId, u))
    => RejectedWith(NewCall("createTransaction", u, d), AnyError)

\* Tenant u1 has a valid source with a balance, and its transfers to a missing
\* toSubAccountId, to a sub-account that does not exist and to an account of
\* another tenant are refused with the error of the destination check.
C19_Witness ==
  \E d \in TransferInputs :
    /\ Owned(db, "accounts", d.accountId, "u1")
    /\ Owned(db, "subAccounts", d.subAccountId, "u1")
    /\ db.subAccounts[d.subAccountId].balance # 0
    /\ Owned(db, "accounts", d.toAccountId, "u1")
    /\ Owned(db, "subAccounts", d.toSubAccountId, "u1")
    /\ RejectedWith(NewCall("createTransaction", "u1",
                            [d EXCEPT !.toSubAccountId = NoId]),
                    {"Validation"})
    /\ \E x \in SubAccountIds \ DOMAIN db.subAccounts :
         RejectedWith(NewCall("createTransaction", "u1",
                              [d EXCEPT !.toSubAccountId = x]), {"NotFound"})
    /\ \E a \in AccountIds :
         /\ Foreign(db, "accounts", a, "u1")
         /\ RejectedWith(NewCall("createTransaction", "u1",
                                 [d EXCEPT !.toAccountId = a]),
                         {"Unauthorized"})

\* C20: in every state reached by operations that run one at a time, the
\* accountId of every sub-account names an existing account with the same
\* userId, and no patch given to updateSubAccount changes that accountId.
C20_SubAccountParent ==
  /\ \A x \in DOMAIN db.subAccounts :
       Owned(db, "accounts", db.subAccounts[x].accountId,
             db.subAccounts[x].userId)
  /\ \A u \in Users, x \in DOMAIN db.subAccounts :
       \A p \in SubAccountPatches
                \cup {[accountId |-> a, balance |-> 1] : a \in AccountIds} :
         \A r \in {Run(db, NewCall("updateSubAccount", u,
                                   [subAccountId |-> x, updateData |-> p]))} :
           /\ x \in DOMAIN r.st.subAccounts
           /\ r.st.subAccounts[x].accountId = db.subAccounts[x].accountId

\* Tenant u1 has two accounts, and updateSubAccount with a patch that names
\* the other account returns: the balance of the patch is written, the
\* sub-account stays under its account.
C20_Witness ==
  \E x \in DOMAIN db.subAccounts, a \in DOMAIN db.accounts :
    /\ db.subAccounts[x].userId = "u1"
    /\ db.accounts[a].userId = "u1"
    /\ db.subAccounts[x].accountId # a
    /\ db.subAccounts[x].balance # 1
    /\ \A r \in {Run(db, NewCall("updateSubAccount", "u1",
                      [subAccountId |-> x,
                       updateData |-> [accountId |-> a, balance |-> 1]]))} :
         /\ r.c.pc = "done"
         /\ r.st.subAccounts[x].balance = 1
         /\ r.st.subAccounts[x].accountId = db.subAccounts[x].accountId

\* C21: every stored favorite has exactly one of accountId and subAccountId
\* set, for every combination of arguments addFavorite accepts.
C21_FavoriteNamesOneTarget ==
  \A f \in DOMAIN db.favorites :
    (db.favorites[f].accountId = NoId) # (db.favorites[f].subAccountId = NoId)

\* C22: addFavorite creates a favorite only when the account or sub-account
\* it names exists and belongs to the caller, and otherwise fails without
\* writing a favorite.
C22_AddFavoriteChecksOwnership ==
  \A u \in Users, a \in AccountIds \cup {NoId}, x \in SubAccountIds \cup {NoId} :
    (\/ a # NoId /\ ~Owned(db, "accounts", a, u)
     \/ x # NoId /\ ~Owned(db, "subAccounts", x, u))
    => RejectedWith(NewCall("addFavorite", u,
                            [accountId |-> a, subAccountId |-> x]), AnyError)

\* Call k is the one that takes the step, from a recomputation of a
\* sub-account at position pc.
StepsSubAccountRecalculation(k, pc) ==
  /\ k \in DOMAIN calls'
  /\ calls'[k] # calls[k]
  /\ calls[k].pc = pc
  /\ Head(calls[k].todo).kind = "sub"

\* C23: the recomputation of a balance is a read followed by an unconditional
\* write.  The read folds the transactions stored at the moment of the read;
\* the write, a later step, stores the folded value whatever has been
\* committed in between.  (The state the claim names, two overlapping
\* transaction mutations returned and the balance off the log, is the witness.)
C23_RecalculationWritesWhatItRead ==
  [][\A k \in DOMAIN calls :
       /\ StepsSubAccountRecalculation(k, "rread")
          => /\ db' = db
             /\ calls'[k].pc = "rwrite"
             /\ calls'[k].val
                  = FoldBalance(db, getTransactionsBySubAccount(
                                      db, calls[k].u, Head(calls[k].todo).id))
       /\ (/\ StepsSubAccountRecalculation(k, "rwrite")
           /\ Head(calls[k].todo).id \in DOMAIN db.subAccounts)
          => /\ calls'[k].pc # "failed"
             /\ db'.subAccounts[Head(calls[k].todo).id].balance = calls[k].val
    ]_vars

\* Two createTransaction calls for an Income on the same sub-account have
\* both returned, nothing is in flight, and the stored balance is not the
\* signed sum of the log.
C23_Witness ==
  /\ \A k \in DOMAIN calls : Finished(calls[k])
  /\ \E j, k \in DOMAIN calls :
       /\ j # k
       /\ calls[j].op = "createTransaction" /\ calls[j].pc = "done"
       /\ calls[k].op = "createTransaction" /\ calls[k].pc = "done"
       /\ calls[j].arg.transactionType = "Income"
       /\ calls[k].arg.transactionType = "Income"
       /\ calls[j].arg.subAccountId = calls[k].arg.subAccountId
       /\ \E x \in {calls[j].arg.subAccountId} :
            /\ x \in DOMAIN db.subAccounts
            /\ calls[j].ret \in DOMAIN db.transactions
            /\ calls[k].ret \in DOMAIN db.transactions
            /\ db.subAccounts[x].balance # LedgerSum(db, ConcUser, x)

\* C24: deleteAccount and deleteSubAccount enumerate the children in reads
\* that precede the commit, and the commit deletes the parent and the
\* documents enumerated, nothing more: a transaction or sub-account committed
\* by another call after the read that would have returned it stays in the
\* store, naming the deleted parent.  (The state the claim names is the
\* witness.)
C24_DeleteCommitsWhatItEnumerated ==
  [][\A k \in DOMAIN calls :
       (/\ calls'[k] # calls[k]
        /\ calls[k].op \in {"deleteAccount", "deleteSubAccount"}
        /\ calls[k].pc = "commit")
       => LET c == calls[k]
              subIds == IF c.op = "deleteAccount" THEN c.subIds
                        ELSE {c.arg.subAccountId}
          IN /\ calls'[k].pc # "failed"
             /\ DOMAIN db'.transactions = DOMAIN db.transactions \ c.txnIds
             /\ DOMAIN db'.subAccounts = DOMAIN db.subAccounts \ subIds
             /\ DOMAIN db'.accounts =
                  DOMAIN db.accounts
                  \ (IF c.op = "deleteAccount" THEN {c.arg.accountId} ELSE {})
             /\ \A t \in DOMAIN db'.transactions :
                  db'.transactions[t] = db.transactions[t]
             /\ \A x \in DOMAIN db'.subAccounts :
                  db'.subAccounts[x] = db.subAccounts[x]
    ]_vars

\* deleteAccount has returned and its account is gone; a createTransaction on
\* one of the sub-accounts it enumerated has returned as well, and its
\* transaction, which the delete did not enumerate, is still stored and names
\* the deleted account and sub-account.
C24_Witness ==
  \E j, k \in DOMAIN calls :
    /\ calls[j].op = "deleteAccount" /\ calls[j].pc = "done"
    /\ calls[k].op = "createTransaction" /\ calls[k].pc = "done"
    /\ calls[k].arg.accountId = calls[j].arg.accountId
    /\ calls[k].arg.subAccountId \in calls[j].subIds
    /\ calls[k].ret \notin calls[j].txnIds
    /\ calls[j].arg.accountId \notin DOMAIN db.accounts
    /\ calls[k].arg.subAccountId \notin DOMAIN db.subAccounts
    /\ calls[k].ret \in DOMAIN db.transactions
    /\ db.transactions[calls[k].ret].accountId = calls[j].arg.accountId
    /\ db.transactions[calls[k].ret].subAccountId = calls[k].arg.subAccountId

\* recalculateSubAccountBalance(u, x) for every x of subIds, one call after
\* the other, then recalculateAccountBalance(u, a) for every a of accountIds.
RECURSIVE Recover(_, _, _, _)
Recover(st, u, subIds, accountIds) ==
  IF subIds # {}
  THEN LET x == CHOOSE y \in subIds : \A z \in subIds : y <= z
       IN Recover(Run(st, RecalculateSubAccountCall(u, x)).st, u,
                  subIds \ {x}, accountIds)
  ELSE IF accountIds # {}
  THEN LET a == CHOOSE y \in accountIds : \A z \in accountIds : y <= z
       IN Recover(Run(st, RecalculateAccountCall(u, a)).st, u,
                  subIds, accountIds \ {a})
  ELSE st

\* Call c has committed its batch and has not finished the recomputations
\* that follow: it is between two of their steps, or one of them has thrown.
CommittedNotRecalculated(c) ==
  /\ c.op \in {"createTransaction", "updateTransaction", "deleteTransaction"}
  /\ c.todo # <<>>

\* C25: from any state in which a transaction mutation has committed its
\* batch and its recomputation failed or did not run, calling
\* recalculateSubAccountBalance on sub-accounts and then
\* recalculateAccountBalance on accounts, with nothing else running, leaves
\* every sub-account so recomputed with balance equal to the signed sum of
\* its log and every account so recomputed with totalBalance equal to the
\* sum of its children's balances.  Stated for every set of stored
\* sub-accounts and accounts, the affected ones among them.
C25_RecalculationRecovers ==
  (\E k \in DOMAIN calls : CommittedNotRecalculated(calls[k]))
  => \A subIds \in SUBSET DOMAIN db.subAccounts,
        accountIds \in SUBSET DOMAIN db.accounts :
       \A st \in {Recover(db, ConcUser, subIds, accountIds)} :
         /\ \A x \in subIds :
              st.subAccounts[x].balance = LedgerSum(st, ConcUser, x)
         /\ \A a \in accountIds :
              st.accounts[a].totalBalance = ChildrenSum(st, ConcUser, a)
         /\ st.transactions = db.transactions

\* A createTransaction has committed a transfer between two sub-accounts and
\* recomputed nothing yet: both balances and the account total are off, and
\* the recovery calls on the two sub-accounts and the account correct them.
C25_Witness ==
  \E k \in DOMAIN calls :
    /\ CommittedNotRecalculated(calls[k])
    /\ calls[k].op = "createTransaction"
    /\ calls[k].arg.transactionType = "Transfer"
    /\ calls[k].pc = "rcheck"
    /\ \E x \in DOMAIN db.subAccounts, y \in DOMAIN db.subAccounts,
          a \in DOMAIN db.accounts :
         /\ x = calls[k].arg.subAccountId
         /\ y = calls[k].arg.toSubAccountId
         /\ a = calls[k].arg.accountId
         /\ x # y
         /\ db.subAccounts[x].balance # LedgerSum(db, ConcUser, x)
         /\ db.subAccounts[y].balance # LedgerSum(db, ConcUser, y)
         /\ \A st \in {Recover(db, ConcUser, {x, y}, {a})} :
              /\ st.subAccounts[x].balance = LedgerSum(db, ConcUser, x)
              /\ st.subAccounts[y].balance = LedgerSum(db, ConcUser, y)
              /\ st.subAccounts[x].balance # db.subAccounts[x].balance
              /\ st.accounts[a].totalBalance = ChildrenSum(st, ConcUser, a)

\* Stored transaction t of tenant u is a transfer half that names a
\* counterpart which is not in the store.
HalfWithoutCounterpart(st, u, t) ==
  /\ t \in DOMAIN st.transactions
  /\ st.transactions[t].userId = u
  /\ IsLinked(st.transactions[t])
  /\ st.transactions[t].linkedTransactionId \notin DOMAIN st.transactions

\* C26: deleteTransaction on a transfer half whose linked counterpart no
\* longer exists does not fail: it deletes the remaining half and recomputes
\* the balance of that half's sub-account and account.
C26_DeleteRemainingHalf ==
  \A u \in Users, t \in TransactionIds :
    HalfWithoutCounterpart(db, u, t)
    => \A r \in {Run(db, NewCall("deleteTransaction", u, [transactionId |-> t]))} :
         LET x == db.transactions[t].subAccountId
             a == db.transactions[t].accountId
         IN /\ r.c.pc = "done"
            /\ t \notin DOMAIN r.st.transactions
            /\ r.st.subAccounts[x].balance = LedgerSum(r.st, u, x)
            /\ r.st.accounts[a].totalBalance = ChildrenSum(r.st, u, a)

\* C27: updateTransaction on a transfer half whose linked counterpart no
\* longer exists does not fail: the patch is applied to the remaining half
\* and the balances of that half's sub-account and account are recomputed.
C27_UpdateRemainingHalf ==
  \A u \in Users, t \in TransactionIds :
    (/\ HalfWithoutCounterpart(db, u, t)
     /\ ParentIs(db, db.transactions[t].subAccountId,
                 db.transactions[t].accountId))
    => \A r \in {Run(db, NewCall("updateTransaction", u,
                        [transactionId |-> t,
                         updateData |-> [amount |-> MaxAmount]]))} :
         LET x == db.transactions[t].subAccountId
             a == db.transactions[t].accountId
         IN /\ r.c.pc = "done"
            /\ r.st.transactions[t].amount = MaxAmount
            /\ r.st.subAccounts[x].balance = LedgerSum(r.st, u, x)
            /\ r.st.accounts[a].totalBalance = ChildrenSum(r.st, u, a)

\* Call c run on store st, and then once more on the store it left.
Twice(st, c) ==
  LET first == Run(st, c) IN [first |-> first, second |-> Run(first.st, c)]

\* C28: recalculateSubAccountBalance and recalculateAccountBalance are
\* idempotent: run twice in a row with no write in between, the second run
\* stores and returns the value the first one did.
C28_RecalculationIdempotent ==
  \A u \in Users :
    /\ \A x \in SubAccountIds :
         \A r \in {Twice(db, RecalculateSubAccountCall(u, x))} :
           /\ r.second.st = r.first.st
           /\ r.second.c.pc = r.first.c.pc
           /\ r.second.c.ret = r.first.c.ret
    /\ \A a \in AccountIds :
         \A r \in {Twice(db, RecalculateAccountCall(u, a))} :
           /\ r.second.st = r.first.st
           /\ r.second.c.pc = r.first.c.pc
           /\ r.second.c.ret = r.first.c.ret

\* A sub-account balance and an account total are both stale; the first run
\* of each recomputation changes the stored value to a non-zero one and the
\* second run leaves it.
C28_Witness ==
  /\ \E x \in DOMAIN db.subAccounts :
       \A r \in {Twice(db, RecalculateSubAccountCall("u1", x))} :
         /\ r.first.c.pc = "done" /\ r.first.c.ret # 0
         /\ r.first.st.subAccounts[x].balance # db.subAccounts[x].balance
         /\ r.second.c.pc = "done"
         /\ r.second.st.subAccounts[x].balance = r.first.c.ret
  /\ \E a \in DOMAIN db.accounts :
       \A r \in {Twice(db, RecalculateAccountCall("u1", a))} :
         /\ r.first.c.pc = "done" /\ r.first.c.ret # 0
         /\ r.first.st.accounts[a].totalBalance # db.accounts[a].totalBalance
         /\ r.second.c.pc = "done"
         /\ r.second.st.accounts[a].totalBalance = r.first.c.ret

\* C29: recalculateSubAccountBalance(u, S) modifies only the balance of
\* sub-account S: every transaction, account, favorite and other sub-account
\* is unchanged, and when S does not exist or is not the caller's nothing at
\* all is written.
C29_RecalculateSubAccountFrame ==
  \A u \in Users, x \in SubAccountIds :
    \A r \in {Run(db, RecalculateSubAccountCall(u, x))} :
      /\ r.c.pc = "done"
         => r.st = [db EXCEPT !.subAccounts[x].balance = r.c.ret]
      /\ r.c.pc # "done" => r.st = db
      /\ ~Owned(db, "subAccounts", x, u) => r.c.pc = "failed" /\ r.st = db

\* The store holds an account with a total, two sub-accounts and a
\* transaction; the recomputation of one sub-account by its owner changes
\* that balance alone, and the same call by the other tenant is refused.
C29_Witness ==
  \E x \in DOMAIN db.subAccounts, y \in DOMAIN db.subAccounts :
    /\ x # y
    /\ db.transactions # EmptyColl
    /\ \E a \in DOMAIN db.accounts : db.accounts[a].totalBalance # 0
    /\ db.subAccounts[x].userId = "u1"
    /\ \A r \in {Run(db, RecalculateSubAccountCall("u1", x))} :
         /\ r.c.pc = "done"
         /\ r.st.subAccounts[x].balance # db.subAccounts[x].balance
         /\ r.st.subAccounts[y] = db.subAccounts[y]
         /\ r.st.accounts = db.accounts
         /\ r.st.transactions = db.transactions
    /\ RejectedWith(RecalculateSubAccountCall("u2", x), {"Unauthorized"})

\* Every stored transfer names a stored counterpart that is a transfer,
\* names it back and has the opposite transferType.
TransfersPaired(st) ==
  \A t \in DOMAIN st.transactions :
    st.transactions[t].transactionType = "Transfer"
    => \E o \in DOMAIN st.transactions :
         /\ o # t
         /\ st.transactions[t].linkedTransactionId = o
         /\ st.transactions[o].transactionType = "Transfer"
         /\ st.transactions[o].linkedTransactionId = t
         /\ {st.transactions[t].transferType, st.transactions[o].transferType}
              = {"Outgoing", "Incoming"}

\* C30: createTransaction, updateTransaction, deleteTransaction,
\* deleteSubAccount and deleteAccount, run one at a time, keep every transfer
\* paired: from a store in which no transfer half is without its counterpart
\* each of them leads to such a store.
C30_TransfersStayPaired ==
  [][(/\ TransfersPaired(db)
      /\ last'.op \in {"createTransaction", "updateTransaction",
                        "deleteTransaction", "deleteSubAccount",
                        "deleteAccount"})
     => TransfersPaired(db')]_vars

\* C31: the sub-account a stored transaction names is a child of the account
\* it names (for a transfer, toSubAccountId is a child of toAccountId as
\* well): createTransaction stores a transaction only when that is so, and
\* the account it recomputes is then the parent of the sub-account whose
\* balance changed.
C31_TransactionNamesParent ==
  \A u \in Users, d \in TransactionInputs :
    \A r \in {Run(db, NewCall("createTransaction", u, d))} :
      r.st.transactions # db.transactions
      => /\ ParentIs(db, d.subAccountId, d.accountId)
         /\ d.transactionType = "Transfer"
            => ParentIs(db, d.toSubAccountId, d.toAccountId)

\* The transfers of tenant u from a sub-account to itself.
SelfTransfers(u) ==
  {d \in TransferInputs :
     /\ d.toSubAccountId = d.subAccountId
     /\ Owned(db, "accounts", d.accountId, u)
     /\ Owned(db, "accounts", d.toAccountId, u)
     /\ Owned(db, "subAccounts", d.subAccountId, u)}

\* C32 as stated: a transfer whose source and destination sub-account are
\* the same writes both halves on that sub-account and leaves its balance
\* and its account's totalBalance equal to their values before the transfer.
C32_SelfTransferKeepsValues ==
  \A u \in Users : \A d \in SelfTransfers(u) :
    \A r \in {Run(db, NewCall("createTransaction", u, d))} :
      /\ r.c.pc = "done"
      /\ r.st.subAccounts[d.subAccountId].balance
           = db.subAccounts[d.subAccountId].balance
      /\ r.st.accounts[d.accountId].totalBalance
           = db.accounts[d.accountId].totalBalance

\* C32, amended: a transfer whose source and destination sub-account are the
\* same writes both halves on that sub-account, recomputes the sub-account
\* and the source account once each, and leaves the balance equal to the
\* signed sum the log had before the transfer (the two halves add nothing to
\* it) and the totalBalance of the source account equal to the sum of its
\* children's balances.  These are the values before the transfer when the
\* stored values agreed with the log and the children before it; a stored
\* value that did not is replaced by the recomputed one.
C32_SelfTransferRecomputes ==
  \A u \in Users : \A d \in SelfTransfers(u) :
    \A r \in {Run(db, NewCall("createTransaction", u, d))} :
      LET x == d.subAccountId
          a == d.accountId
          new == (DOMAIN r.st.transactions) \ (DOMAIN db.transactions)
      IN /\ r.c.pc = "done"
         /\ Cardinality(new) = 2
         /\ \A t \in new : r.st.transactions[t].subAccountId = x
         /\ {r.st.transactions[t].transferType : t \in new}
              = {"Outgoing", "Incoming"}
         /\ TransferRecalculations(d) = <<Sub(x), Acct(a)>>
         /\ LedgerSum(r.st, u, x) = LedgerSum(db, u, x)
         /\ r.st.subAccounts[x].balance = LedgerSum(db, u, x)
         /\ r.st.accounts[a].totalBalance = ChildrenSum(r.st, u, a)
         /\ (/\ db.subAccounts[x].balance = LedgerSum(db, u, x)
             /\ db.accounts[a].totalBalance = ChildrenSum(db, u, a))
            => /\ r.st.subAccounts = db.subAccounts
               /\ r.st.accounts = db.accounts

\* A sub-account holds a non-zero balance that agrees with its log, and a
\* transfer from it to itself returns with two new transactions and the
\* balance and the total it had.
C32_Witness ==
  \E d \in SelfTransfers("u1") :
    /\ db.subAccounts[d.subAccountId].balance # 0
    /\ db.subAccounts[d.subAccountId].balance
         = LedgerSum(db, "u1", d.subAccountId)
    /\ db.accounts[d.accountId].totalBalance
         = ChildrenSum(db, "u1", d.accountId)
    /\ ParentIs(db, d.subAccountId, d.accountId)
    /\ \A r \in {Run(db, NewCall("createTransaction", "u1", d))} :
         /\ r.c.pc = "done"
         /\ Cardinality(DOMAIN r.st.transactions)
              = Cardinality(DOMAIN db.transactions) + 2
         /\ r.st.subAccounts = db.subAccounts
         /\ r.st.accounts = db.accounts

\* ------------------------------------- the two versions of the recomputation
\* SpecFold: a sub-account of tenant u1 with a transaction log of any shape,
\* on which the two versions of recalculateSubAccountBalance are run.
MaxLog == 3

\* A fold that counts a transfer for nothing.
EarlierSignedAmountSkippingTransfers(txn) ==
  IF txn.transactionType = "Income" THEN txn.amount
  ELSE IF txn.transactionType = "Expense" THEN 0 - txn.amount
  ELSE 0

\* The contribution of one transaction in the earlier version: every
\* transfer is subtracted.
EarlierSignedAmount(txn) ==
  IF txn.transactionType = "Income" THEN txn.amount
  ELSE IF txn.transactionType = "Expense" THEN 0 - txn.amount
  ELSE IF txn.transactionType = "Transfer" THEN 0 - txn.amount
  ELSE 0

EarlierFoldBalance(st, ids) ==
  SumOver([t \in ids |-> EarlierSignedAmount(st.transactions[t])], ids)

\* The earlier recalculateSubAccountBalance, run alone: the store it leaves
\* and what it returns or throws.
recalculateSubAccountBalanceEarlier(st, u, subAccountId) ==
  LET e == getSubAccount(st, u, subAccountId) IN
  IF e # "" THEN [st |-> st, err |-> e, ret |-> NoId]
  ELSE LET balance ==
             EarlierFoldBalance(
               st, getTransactionsBySubAccount(st, u, subAccountId))
       IN [st |-> [st EXCEPT !.subAccounts[subAccountId].balance = balance],
           err |-> "", ret |-> balance]

\* The documents a log can hold: incomes, expenses, and transfers marked
\* Outgoing, Incoming or not marked.
LogDocuments ==
  {[userId |-> "u1", amount |-> a, accountId |-> 1, subAccountId |-> 1,
    transactionType |-> t[1], transferType |-> t[2], description |-> "d1",
    linkedTransactionId |-> NoId] :
     a \in Amounts,
     t \in {<<"Income", "">>, <<"Expense", "">>, <<"Transfer", "Outgoing">>,
            <<"Transfer", "Incoming">>, <<"Transfer", "">>}}

LogStores ==
  {[EmptyStore EXCEPT
      !.accounts = Put(@, 1, [userId |-> "u1", accountType |-> "Asset",
                              totalBalance |-> 0]),
      !.subAccounts = Put(@, 1, [userId |-> "u1", accountId |-> 1,
                                 balance |-> 0]),
      !.transactions = log,
      !.nextAccount = 2, !.nextSubAccount = 2,
      !.nextTransaction = Cardinality(DOMAIN log) + 1] :
     log \in UNION {[1..k -> LogDocuments] : k \in 0..MaxLog}}

InitFold ==
  /\ db \in LogStores
  /\ calls = NoCalls
  /\ last = NoCall
  /\ ncalls = 0
  /\ authManager = NewAuthManager

RecalculateCurrent(u, x) ==
  /\ \E r \in {Run(db, RecalculateSubAccountCall(u, x))} :
       /\ db' = r.st
       /\ last' = Outcome(r.c)
  /\ UNCHANGED <<calls, ncalls, authManager>>

RecalculateEarlier(u, x) ==
  /\ \E r \in {recalculateSubAccountBalanceEarlier(db, u, x)} :
       /\ db' = r.st
       /\ last' = [op |-> "recalculateSubAccountBalanceEarlier", u |-> u,
                   arg |-> [subAccountId |-> x],
                   status |-> IF r.err = "" THEN "done" ELSE "failed",
                   err |-> r.err, ret |-> r.ret]
  /\ UNCHANGED <<calls, ncalls, authManager>>

NextFold ==
  \/ \E u \in Users, x \in SubAccountIds : RecalculateCurrent(u, x)
  \/ \E u \in Users, x \in SubAccountIds : RecalculateEarlier(u, x)

SpecFold == InitFold /\ [][NextFold]_vars

\* The incoming transfers among the transactions ids of store st.
IncomingTransfers(st, ids) ==
  {t \in ids : /\ st.transactions[t].transactionType = "Transfer"
               /\ st.transactions[t].transferType = "Incoming"}

\* C33: the two versions of recalculateSubAccountBalance compute the same
\* balance for every log without a transfer marked Incoming, and otherwise
\* the current one gives twice the sum of the Incoming amounts more than the
\* earlier one.
C33_VersionsDifferByIncoming ==
  \A u \in Users, x \in SubAccountIds :
    \A cur \in {Run(db, RecalculateSubAccountCall(u, x))},
       old \in {recalculateSubAccountBalanceEarlier(db, u, x)} :
      LET ids == getTransactionsBySubAccount(db, u, x)
          incoming == IncomingTransfers(db, ids)
      IN /\ (cur.c.pc = "done") = (old.err = "")
         /\ cur.c.err = old.err
         /\ cur.c.pc = "done"
            => /\ cur.c.ret - old.ret
                   = 2 * SumOver([t \in incoming |-> db.transactions[t].amount],
                                 incoming)
               /\ cur.st.subAccounts[x].balance = cur.c.ret
               /\ old.st.subAccounts[x].balance = old.ret
               /\ incoming = {} => cur.st = old.st

\* The earlier version has stored the balance of a log with an incoming
\* transfer and an income: the current version would store more.
C33_Witness ==
  /\ last.op = "recalculateSubAccountBalanceEarlier"
  /\ last.status = "done"
  /\ db.subAccounts[1].balance = last.ret
  /\ IncomingTransfers(db, DOMAIN db.transactions) # {}
  /\ \E t \in DOMAIN db.transactions :
       db.transactions[t].transactionType = "Income"
  /\ Run(db, RecalculateSubAccountCall("u1", 1)).c.ret > last.ret

\* ------------------------------------------------------ initializeUser.js
\* SpecInitialize: initializeUserAccounts is called once for a tenant, one
\* call at a time, a step being what the call does up to its next await;
\* between the steps the tenants that have not been initialized yet create
\* accounts of their own.
\* A default set without the Equity account.
DEFAULT_ACCOUNTS_WITHOUT_EQUITY ==
  <<[accountType |-> "Asset", subAccounts |-> 3],
    [accountType |-> "Liability", subAccounts |-> 2],
    [accountType |-> "Income", subAccounts |-> 2],
    [accountType |-> "Expense", subAccounts |-> 3]>>

\* The default accounts, in order, with the number of sub-accounts of each.
DEFAULT_ACCOUNTS ==
  <<[accountType |-> "Asset", subAccounts |-> 3],
    [accountType |-> "Liability", subAccounts |-> 2],
    [accountType |-> "Income", subAccounts |-> 2],
    [accountType |-> "Expense", subAccounts |-> 3],
    [accountType |-> "Equity", subAccounts |-> 1]>>

\* The most accounts a tenant creates before its initialization.
MaxMeanwhile == 2

\* The documents of tenant u in a collection.
DocsOf(coll, u) == {x \in DOMAIN coll : coll[x].userId = u}

\* A call of initializeUserAccounts: i and j are the positions of the two
\* loops, inner the createAccount or createSubAccount call it awaits, prior
\* whether the tenant had accounts when the call was made.
NewInitialization(u, prior) ==
  [op |-> "initializeUserAccounts", u |-> u, pc |-> "start", err |-> "",
   prior |-> prior,
   i |-> 0, j |-> 0, accountId |-> NoId, inner |-> NoCall,
   createdAccounts |-> <<>>, createdSubAccounts |-> <<>>]

\* The call enters createAccount or createSubAccount and runs to its first
\* await; an error thrown there is caught and thrown again.
Await(st, c, call) ==
  LET r == Step(st, call) IN
  [st |-> r.st,
   c |-> IF r.c.pc = "failed"
         THEN [c EXCEPT !.inner = r.c, !.pc = "failed", !.err = r.c.err]
         ELSE [c EXCEPT !.inner = r.c]]

\* The call goes on after the sub-accounts of account i: the next account,
\* or the return.
NextAccount(st, c) ==
  IF c.i < Len(DEFAULT_ACCOUNTS)
  THEN Await(st, [c EXCEPT !.i = c.i + 1, !.j = 0, !.pc = "account"],
             NewCall("createAccount", c.u,
                     [accountType |-> DEFAULT_ACCOUNTS[c.i + 1].accountType]))
  ELSE [st |-> st, c |-> [c EXCEPT !.pc = "done"]]

\* The call goes on with sub-account j + 1 of account i, if there is one.
NextSubAccount(st, c) ==
  IF c.j < DEFAULT_ACCOUNTS[c.i].subAccounts
  THEN Await(st, [c EXCEPT !.j = c.j + 1, !.pc = "sub"],
             NewCall("createSubAccount", c.u, [accountId |-> c.accountId]))
  ELSE NextAccount(st, c)

initializeUserAccounts(st, c) ==
  CASE c.pc = "start" ->
         IF c.u = "" \/ c.u \in NonStrings
         THEN [st |-> st, c |-> [c EXCEPT !.pc = "failed", !.err = "Validation"]]
         ELSE NextAccount(st, c)
    [] c.pc \in {"account", "sub"} /\ ~Finished(c.inner) ->
         Await(st, c, c.inner)
    [] c.pc = "account" /\ c.inner.pc = "done" ->
         NextSubAccount(
           st, [c EXCEPT !.accountId = c.inner.ret,
                         !.createdAccounts = Append(@, c.inner.ret)])
    [] c.pc = "sub" /\ c.inner.pc = "done" ->
         NextSubAccount(
           st, [c EXCEPT !.createdSubAccounts = Append(@, c.inner.ret)])

InitializeUsers == Users \cup {Blank}

InitInitialize ==
  /\ db = EmptyStore
  /\ calls = NoCalls
  /\ last = NoCall
  /\ ncalls = 0
  /\ authManager = NewAuthManager

\* A step of initialization c in slot k.
AdvanceInitialization(k, c) ==
  \E r \in {initializeUserAccounts(db, c)} :
    /\ db' = r.st
    /\ calls' = [x \in (DOMAIN calls) \cup {k} |->
                   IF x = k THEN r.c ELSE calls[x]]
    /\ last' = IF Finished(r.c)
               THEN [op |-> r.c.op, u |-> r.c.u, arg |-> NoId,
                     status |-> r.c.pc, err |-> r.c.err, ret |-> NoId]
               ELSE last
    /\ UNCHANGED authManager

StartInitialization(u) ==
  /\ \A k \in DOMAIN calls : calls[k].u # u /\ Finished(calls[k])
  /\ AdvanceInitialization(
       ncalls + 1, NewInitialization(u, DocsOf(db.accounts, u) # {}))
  /\ ncalls' = ncalls + 1

StepInitialization(k) ==
  /\ ~Finished(calls[k])
  /\ AdvanceInitialization(k, calls[k])
  /\ UNCHANGED ncalls

\* A tenant that has not been initialized creates an account.
CreateAccountMeanwhile(u, t) ==
  /\ \A k \in DOMAIN calls : calls[k].u # u
  /\ Cardinality(DocsOf(db.accounts, u)) < MaxMeanwhile
  /\ \E r \in {Run(db, NewCall("createAccount", u, [accountType |-> t]))} :
       /\ db' = r.st
       /\ last' = Outcome(r.c)
  /\ UNCHANGED <<calls, ncalls, authManager>>

NextInitialize ==
  \/ \E u \in InitializeUsers : StartInitialization(u)
  \/ \E k \in DOMAIN calls : StepInitialization(k)
  \/ \E u \in Users : CreateAccountMeanwhile(u, "Asset")

SpecInitialize == InitInitialize /\ [][NextInitialize]_vars

\* C34: a successful initializeUserAccounts for a tenant with no prior data
\* leaves the tenant with exactly five accounts, one per accountType, and
\* exactly eleven sub-accounts, each under one of the five, every balance and
\* totalBalance being 0.
C34_InitializeUserAccounts ==
  \A k \in DOMAIN calls :
    calls[k].pc = "done" /\ ~calls[k].prior
    => LET u == calls[k].u
           accounts == DocsOf(db.accounts, u)
           subAccounts == DocsOf(db.subAccounts, u)
       IN /\ Cardinality(accounts) = 5
          /\ \A t \in ValidAccountTypes :
               Cardinality({a \in accounts : db.accounts[a].accountType = t}) = 1
          /\ Cardinality(subAccounts) = 11
          /\ \A x \in subAccounts :
               /\ db.subAccounts[x].accountId \in accounts
               /\ db.subAccounts[x].balance = 0
          /\ \A a \in accounts : db.accounts[a].totalBalance = 0
          /\ {calls[k].createdAccounts[n] :
                n \in 1..Len(calls[k].createdAccounts)} = accounts
          /\ {calls[k].createdSubAccounts[n] :
                n \in 1..Len(calls[k].createdSubAccounts)} = subAccounts

\* An initialization of a tenant without accounts has returned, the other
\* tenant having created an account between two of its steps; the
\* initialization with a blank tenant id has failed.
C34_Witness ==
  /\ \E k \in DOMAIN calls :
       /\ calls[k].u = "u1" /\ calls[k].pc = "done" /\ ~calls[k].prior
       /\ \E a \in DocsOf(db.accounts, "u1"), b \in DocsOf(db.accounts, "u2"),
             c \in DocsOf(db.accounts, "u1") : a < b /\ b < c
  /\ \E k \in DOMAIN calls : calls[k].u = Blank /\ calls[k].pc = "failed"
  /\ Cardinality(DocsOf(db.subAccounts, "u1")) = 11

\* ------------------------------------------------- firebase/auth-manager.js
\* SpecAuth: the AuthManager singleton. A user is named by its uid, NoUser
\* being null. The variable calls holds what the callers hold: the listener
\* calls of the latest operation, the unsubscribe functions returned and the
\* ones that have run, the onAuthChange callback given to init, and the
\* latest auth state event.
MaxAuthCalls == 5
MaxListeners == 3

Auths == {"auth1", "auth2"}
AuthUsers == {"u1", "u2"}
NotAFunction == "notAFunction"

\* The listeners: l1 returns, l2 throws, l3 runs its own unsubscribe
\* function when it is called.
Listeners == {"l1", "l2", "l3"}
Unsubscribing == {"l3"}

NoCallers ==
  [invoked |-> <<>>, unsubscribe |-> {}, unsubscribed |-> {},
   onAuthChange |-> FALSE, delivered |-> FALSE, event |-> NoUser]

\* init that runs again on an initialized manager.
initAgain(am, auth) ==
  [am EXCEPT !.auth = auth, !.initialized = TRUE]

init(am, auth) ==
  IF am.initialized
  THEN am
  ELSE [am EXCEPT !.auth = auth, !.initialized = TRUE]

getCurrentUser(am) ==
  IF ~am.initialized
  THEN [status |-> "failed", ret |-> NoUser]
  ELSE [status |-> "done", ret |-> am.currentUser]

getCurrentUserId(am) ==
  LET user == getCurrentUser(am) IN
  IF user.status = "failed" \/ user.ret = NoUser
  THEN [status |-> "failed", ret |-> NoUser]
  ELSE [status |-> "done", ret |-> user.ret]

isAuthenticated(am) ==
  LET user == getCurrentUser(am) IN
  IF user.status = "failed"
  THEN [status |-> "done", ret |-> FALSE]
  ELSE [status |-> "done", ret |-> user.ret # NoUser]

requireAuth(am) ==
  IF ~isAuthenticated(am).ret
  THEN [status |-> "failed", ret |-> NoUser]
  ELSE getCurrentUserId(am)

\* listeners.indexOf(listener), 0 for -1.
IndexOf(listeners, l) ==
  IF \E n \in 1..Len(listeners) : listeners[n] = l
  THEN CHOOSE n \in 1..Len(listeners) :
         /\ listeners[n] = l
         /\ \A m \in 1..(n - 1) : listeners[m] # l
  ELSE 0

\* listeners.splice(index, 1)
Splice(listeners, index) ==
  [n \in 1..(Len(listeners) - 1) |->
     IF n < index THEN listeners[n] ELSE listeners[n + 1]]

\* The function that onAuthStateChange returned for listener l.
unsubscribe(am, l) ==
  LET index == IndexOf(am.listeners, l) IN
  IF index > 0
  THEN [am EXCEPT !.listeners = Splice(am.listeners, index)]
  ELSE am

\* listener(user, previousUser), inside the try of its caller: what l3
\* throws when its unsubscribe function does not exist yet is caught, as is
\* what l2 throws.
CallListener(am, g, l, user, previousUser) ==
  LET h == [g EXCEPT !.invoked = Append(@, <<l, user, previousUser>>)] IN
  IF l \in Unsubscribing /\ l \in g.unsubscribe
  THEN [am |-> unsubscribe(am, l),
        g |-> [h EXCEPT !.unsubscribed = @ \cup {l}]]
  ELSE [am |-> am, g |-> h]

\* this.listeners.forEach(...) from index k on: the indexes up to the length
\* at the start are visited, on the array as it is at the visit.
RECURSIVE NotifyFrom(_, _, _, _, _, _)
NotifyFrom(am, g, k, len, user, previousUser) ==
  IF k > len \/ k > Len(am.listeners)
  THEN [am |-> am, g |-> g]
  ELSE LET r == CallListener(am, g, am.listeners[k], user, previousUser) IN
       NotifyFrom(r.am, r.g, k + 1, len, user, previousUser)

\* The callback that init gives to onAuthStateChanged.
authStateChanged(am, g, user) ==
  LET previousUser == am.currentUser
      r == NotifyFrom([am EXCEPT !.currentUser = user],
                      [g EXCEPT !.invoked = <<>>, !.delivered = TRUE,
                                !.event = user],
                      1, Len(am.listeners), user, previousUser)
  IN IF g.onAuthChange
     THEN [r EXCEPT !.g.invoked =
                      Append(@, <<"onAuthChange", user, previousUser>>)]
     ELSE r

onAuthStateChange(am, g, l) ==
  LET pushed == [am EXCEPT !.listeners = Append(@, l)]
      cleared == [g EXCEPT !.invoked = <<>>]
      r == IF am.currentUser # NoUser
           THEN CallListener(pushed, cleared, l, am.currentUser, NoUser)
           ELSE [am |-> pushed, g |-> cleared]
  IN [r EXCEPT !.g.unsubscribe = @ \cup {l}]

AuthOutcome(op, arg, status, ret) ==
  [op |-> op, arg |-> arg, status |-> status, ret |-> ret]

InitAuth ==
  /\ db = EmptyStore
  /\ calls = NoCallers
  /\ last = NoCall
  /\ ncalls = 0
  /\ authManager = NewAuthManager

AuthInit(auth, onAuthChange) ==
  /\ ncalls < MaxAuthCalls
  /\ authManager' = init(authManager, auth)
  /\ calls' = IF authManager.initialized
              THEN calls
              ELSE [calls EXCEPT !.onAuthChange = onAuthChange]
  /\ last' = AuthOutcome("init", auth, "done", authManager.initialized)
  /\ ncalls' = ncalls + 1
  /\ UNCHANGED db

AuthStateChanged(user) ==
  /\ ncalls < MaxAuthCalls
  /\ authManager.initialized
  /\ \E r \in {authStateChanged(authManager, calls, user)} :
       /\ authManager' = r.am
       /\ calls' = r.g
  /\ last' = AuthOutcome("authStateChanged", user, "done",
                         authManager.currentUser)
  /\ ncalls' = ncalls + 1
  /\ UNCHANGED db

OnAuthStateChange(l) ==
  /\ ncalls < MaxAuthCalls
  /\ IF l = NotAFunction
     THEN /\ last' = AuthOutcome("onAuthStateChange", l, "failed", NoUser)
          /\ UNCHANGED <<authManager, calls>>
     ELSE /\ Len(authManager.listeners) < MaxListeners
          /\ \E r \in {onAuthStateChange(authManager, calls, l)} :
               /\ authManager' = r.am
               /\ calls' = r.g
          /\ last' = AuthOutcome("onAuthStateChange", l, "done", NoUser)
  /\ ncalls' = ncalls + 1
  /\ UNCHANGED db

Unsubscribe(l) ==
  /\ ncalls < MaxAuthCalls
  /\ l \in calls.unsubscribe
  /\ authManager' = unsubscribe(authManager, l)
  /\ calls' = [calls EXCEPT !.unsubscribed = @ \cup {l}, !.invoked = <<>>]
  /\ last' = AuthOutcome("unsubscribe", l, "done", NoUser)
  /\ ncalls' = ncalls + 1
  /\ UNCHANGED db

AuthQueries ==
  {"getCurrentUser", "getCurrentUserId", "isAuthenticated", "requireAuth"}

AuthQuery(op) ==
  /\ \E r \in {CASE op = "getCurrentUser" -> getCurrentUser(authManager)
                  [] op = "getCurrentUserId" -> getCurrentUserId(authManager)
                  [] op = "isAuthenticated" -> isAuthenticated(authManager)
                  [] op = "requireAuth" -> requireAuth(authManager)} :
       last' = AuthOutcome(op, NoUser, r.status, r.ret)
  /\ UNCHANGED <<db, calls, ncalls, authManager>>

NextAuth ==
  \/ \E auth \in Auths, onAuthChange \in BOOLEAN : AuthInit(auth, onAuthChange)
  \/ \E user \in AuthUsers \cup {NoUser} : AuthStateChanged(user)
  \/ \E l \in Listeners \cup {NotAFunction} : OnAuthStateChange(l)
  \/ \E l \in Listeners : Unsubscribe(l)
  \/ \E op \in AuthQueries : AuthQuery(op)

SpecAuth == InitAuth /\ [][NextAuth]_vars

\* The calls of listener l in the log of the latest operation.
CallsOf(invoked, l) == {n \in 1..Len(invoked) : invoked[n][1] = l}

\* The listeners are registered once each.
RegisteredOnce(listeners) ==
  \A n, m \in 1..Len(listeners) : listeners[n] = listeners[m] => n = m

\* C35: on an auth state change every listener that is registered, once, and
\* that no unsubscribe function has removed by the end of the notification
\* is called exactly once, with (user, previousUser), also when another
\* listener throws or unsubscribes while the notification is running.
C35_EveryListenerCalledOnce ==
  [][(last'.op = "authStateChanged" /\ ncalls' # ncalls
      /\ RegisteredOnce(authManager.listeners))
     => \A n \in 1..Len(authManager'.listeners) :
          \E m \in 1..Len(calls'.invoked) :
            /\ CallsOf(calls'.invoked, authManager'.listeners[n]) = {m}
            /\ calls'.invoked[m] =
                 <<authManager'.listeners[n], authManager'.currentUser,
                   authManager.currentUser>>]_vars

\* What the queries answer agrees with the latest auth state event.
AnswersFollowEvent(am, g) ==
  /\ ~am.initialized
     => /\ getCurrentUser(am).status = "failed"
        /\ isAuthenticated(am) = [status |-> "done", ret |-> FALSE]
        /\ ~g.delivered
  /\ \A r \in {requireAuth(am), getCurrentUserId(am)} :
       IF g.delivered /\ g.event # NoUser
       THEN r = [status |-> "done", ret |-> g.event]
       ELSE r.status = "failed"

\* C36: requireAuth and getCurrentUserId return a uid only when the latest
\* auth state event delivered a signed-in user, and then that user's uid;
\* before init getCurrentUser throws and isAuthenticated is false; after a
\* sign-out event they throw; a second call of init changes nothing.
C36_AnswersFollowLatestEvent ==
  /\ AnswersFollowEvent(authManager, calls)
  /\ [][/\ AnswersFollowEvent(authManager', calls')
        /\ (last'.op = "init" /\ ncalls' # ncalls /\ authManager.initialized)
           => authManager' = authManager /\ calls' = calls]_vars

\* A second init, with another auth, has just run on a manager whose latest
\* event delivered u2 to a registered listener: auth is the first one still
\* and requireAuth answers u2.
C36_Witness ==
  /\ last = AuthOutcome("init", "auth2", "done", TRUE)
  /\ authManager.auth = "auth1"
  /\ calls.event = "u2"
  /\ \E n \in 1..Len(calls.invoked) : calls.invoked[n][2] = "u2"
  /\ requireAuth(authManager) = [status |-> "done", ret |-> "u2"]

\* ------------------ firebase/services: TransactionsService, AccountsService
\* SpecSplit: the split-based services on a store of their own, the accounts
\* collection with a balance field and the transactions with their splits.
\* An amount is a whole number of units of 0.00005, so that the 0.0001 of
\* isBalanced is EPSILON units.
MaxSplitAccounts == 2
MaxSplitTransactions == 2
MaxSplits == 2
MaxSplitAmount == 1
EPSILON == 2

NoAccount == [userId |-> "", balance |-> 0]

EmptySplitStore ==
  [accounts |-> <<>>, transactions |-> <<>>,
   nextAccount |-> 1, nextTransaction |-> 1]

SplitUsers == Users \cup {""}
SplitAccountUids == 0..MaxSplitAccounts
SplitAmounts == (-MaxSplitAmount..MaxSplitAmount) \ {0}

\* new Split({account_uid, amount}); account_uid 0 is null.
Splits == [account_uid : SplitAccountUids, amount : SplitAmounts]
SplitLists == UNION {[1..n -> Splits] : n \in 0..MaxSplits}

\* splits.reduce((acc, split) => acc + split.amount, 0)
RECURSIVE SumOfSplits(_)
SumOfSplits(splits) ==
  IF splits = <<>>
  THEN 0
  ELSE SumOfSplits(SubSeq(splits, 1, Len(splits) - 1))
       + splits[Len(splits)].amount

isBalanced(splits) ==
  LET sum == SumOfSplits(splits) IN
  (IF sum < 0 THEN -sum ELSE sum) < EPSILON

\* The batch.update calls of the splits, in order, on the accounts of the
\* batch; ok is false when an account to update does not exist.
RECURSIVE BatchUpdates(_, _)
BatchUpdates(accounts, splits) ==
  IF splits = <<>>
  THEN [ok |-> TRUE, accounts |-> accounts]
  ELSE LET split == Head(splits) IN
       IF split.account_uid = 0
       THEN BatchUpdates(accounts, Tail(splits))
       ELSE IF split.account_uid \notin DOMAIN accounts
       THEN [ok |-> FALSE, accounts |-> accounts]
       ELSE BatchUpdates(
              [accounts EXCEPT ![split.account_uid].balance = @ + split.amount],
              Tail(splits))

SplitResult(st, status, ret) == [st |-> st, status |-> status, ret |-> ret]

\* AccountsService.createAccount(userId, new Account())
AccountsServiceCreateAccount(st, userId) ==
  IF userId = ""
  THEN SplitResult(st, "failed", 0)
  ELSE SplitResult(
         [st EXCEPT !.accounts =
                      [x \in (DOMAIN st.accounts) \cup {st.nextAccount} |->
                         IF x = st.nextAccount
                         THEN [userId |-> userId, balance |-> 0]
                         ELSE st.accounts[x]],
                    !.nextAccount = @ + 1],
         "done", st.nextAccount)

AccountsServiceGetAccount(st, uid) ==
  IF uid \in DOMAIN st.accounts
  THEN SplitResult(st, "done", st.accounts[uid])
  ELSE SplitResult(st, "done", NoAccount)

\* AccountsService.updateAccount(uid, {balance})
AccountsServiceUpdateAccount(st, uid, balance) ==
  IF uid \in DOMAIN st.accounts
  THEN SplitResult([st EXCEPT !.accounts[uid].balance = balance], "done", 0)
  ELSE SplitResult(st, "failed", 0)

AccountsServiceDeleteAccount(st, uid) ==
  SplitResult(
    [st EXCEPT !.accounts =
                 [x \in (DOMAIN st.accounts) \ {uid} |-> st.accounts[x]]],
    "done", 0)

TransactionsServiceCreateTransaction(st, userId, splits) ==
  IF userId = ""
  THEN SplitResult(st, "failed", 0)
  ELSE IF ~isBalanced(splits)
  THEN SplitResult(st, "failed", 0)
  ELSE LET batch == BatchUpdates(st.accounts, splits) IN
       IF ~batch.ok
       THEN SplitResult(st, "failed", 0)
       ELSE SplitResult(
              [st EXCEPT !.accounts = batch.accounts,
                         !.transactions =
                           [x \in (DOMAIN st.transactions)
                                    \cup {st.nextTransaction} |->
                              IF x = st.nextTransaction
                              THEN [userId |-> userId, splits |-> splits]
                              ELSE st.transactions[x]],
                         !.nextTransaction = @ + 1],
              "done", st.nextTransaction)

InitSplit ==
  /\ db = EmptySplitStore
  /\ calls = NoCalls
  /\ last = NoCall
  /\ ncalls = 0
  /\ authManager = NewAuthManager

\* The call op of caller u has returned r.
SplitCall(op, u, r) ==
  /\ db' = r.st
  /\ last' = [op |-> op, u |-> u, status |-> r.status]
  /\ UNCHANGED <<calls, ncalls, authManager>>

SplitCreateAccount(u) ==
  /\ db.nextAccount <= MaxSplitAccounts
  /\ SplitCall("AccountsService.createAccount", u,
               AccountsServiceCreateAccount(db, u))

SplitGetAccount(u, uid) ==
  SplitCall("AccountsService.getAccount", u, AccountsServiceGetAccount(db, uid))

SplitUpdateAccount(u, uid, balance) ==
  SplitCall("AccountsService.updateAccount", u,
            AccountsServiceUpdateAccount(db, uid, balance))

SplitDeleteAccount(u, uid) ==
  SplitCall("AccountsService.deleteAccount", u,
            AccountsServiceDeleteAccount(db, uid))

SplitCreateTransaction(u, splits) ==
  /\ db.nextTransaction <= MaxSplitTransactions
  /\ SplitCall("TransactionsService.createTransaction", u,
               TransactionsServiceCreateTransaction(db, u, splits))

NextSplit ==
  \/ \E u \in SplitUsers : SplitCreateAccount(u)
  \/ \E u \in Users, uid \in 1..MaxSplitAccounts : SplitGetAccount(u, uid)
  \/ \E u \in Users, uid \in 1..MaxSplitAccounts :
       SplitUpdateAccount(u, uid, 0)
  \/ \E u \in Users, uid \in 1..MaxSplitAccounts : SplitDeleteAccount(u, uid)
  \/ \E u \in SplitUsers, splits \in SplitLists :
       SplitCreateTransaction(u, splits)

SpecSplit == InitSplit /\ [][NextSplit]_vars

\* The sum of the balance field over all accounts.
BalanceSum(st) ==
  SumOver([x \in DOMAIN st.accounts |-> st.accounts[x].balance],
          DOMAIN st.accounts)

\* C37: TransactionsService.createTransaction rejects every transaction
\* whose split amounts do not sum to zero and writes nothing, and an accepted
\* transaction leaves the sum of the balance field over all accounts as it
\* was.
C37_SplitsKeepBalanceSum ==
  \A u \in SplitUsers, splits \in SplitLists :
    \A r \in {TransactionsServiceCreateTransaction(db, u, splits)} :
      /\ SumOfSplits(splits) # 0 => r.status = "failed" /\ r.st = db
      /\ BalanceSum(r.st) = BalanceSum(db)

\* C38: TransactionsService.createTransaction and getAccount, updateAccount
\* and deleteAccount of AccountsService, called for tenant u, read or change
\* only accounts whose userId is u.
C38_OnlyOwnAccounts ==
  \A u \in Users :
    \A uid \in {x \in DOMAIN db.accounts : db.accounts[x].userId # u} :
      /\ \A splits \in SplitLists :
           \A r \in {TransactionsServiceCreateTransaction(db, u, splits)} :
             uid \in DOMAIN r.st.accounts
             /\ r.st.accounts[uid] = db.accounts[uid]
      /\ AccountsServiceGetAccount(db, uid).ret = NoAccount
      /\ AccountsServiceUpdateAccount(db, uid, 1).st = db
      /\ AccountsServiceDeleteAccount(db, uid).st = db

====
